---- MODULE Spec2Model ----
(***************************************************************************)
(* A model of MappingTemplateSheetsGenerator (src/manage.py): the          *)
(* construction of the generator from a mapping file, the single run of    *)
(* generate_mapping_sheets over the fields of the patched schema, and      *)
(* _save_sheets.                                                           *)
(*                                                                         *)
(* Representation.  A Python str is a sequence of tokens: the tokens are   *)
(* the letters of the model's alphabet, + is \o, "" is << >>.  A Python    *)
(* list of cells (a row) is an object: rows live in `heap` and every list  *)
(* of rows holds references (indices into heap), so that a row appended to *)
(* several lists is one object and the in-place updates of the code        *)
(* (ref[0] = ..., row.append("")) are seen through every alias.  A dict    *)
(* that is iterated (extension_rows[...], org_refs_extensions) is a        *)
(* sequence of entries in insertion order.                                 *)
(***************************************************************************)
EXTENDS Integers, Sequences, FiniteSets, TLC

(***************************************************************************)
(* Bounds of the model.                                                    *)
(***************************************************************************)
MaxFields == 3
MaxRows == 3
MaxRerunFields == 1

(***************************************************************************)
(* Python strings and lists.                                               *)
(***************************************************************************)
Str(t) == <<t>>

NoneValue == <<"<None>">>

Range(s) == {s[i] : i \in DOMAIN s}

\* s[k:] and s[:-1], s[-1:], s[1:-1] of Python, on TLA+ sequences.
SliceFrom(s, k) == SubSeq(s, k + 1, Len(s))

SliceButLast(s) == SubSeq(s, 1, Len(s) - 1)

SliceLast(s) == SubSeq(s, Len(s), Len(s))

SliceInner(s) == SubSeq(s, 2, Len(s) - 1)

\* s.index(ch), 1-based; 0 stands for the ValueError of a missing ch.
IndexOf(s, ch) ==
    IF \E i \in DOMAIN s : s[i] = ch
    THEN CHOOSE i \in DOMAIN s : s[i] = ch /\ \A j \in 1..(i - 1) : s[j] # ch
    ELSE 0

\* sub in s
Contains(s, sub) ==
    \E i \in 1..(Len(s) - Len(sub) + 1) : SubSeq(s, i, i + Len(sub) - 1) = sub

\* s.replace(old, new): every non-overlapping occurrence, left to right.
RECURSIVE Replace(_, _, _)
Replace(s, old, new) ==
    IF Len(s) < Len(old) \/ old = << >> THEN s
    ELSE IF SubSeq(s, 1, Len(old)) = old
         THEN new \o Replace(SubSeq(s, Len(old) + 1, Len(s)), old, new)
         ELSE <<s[1]>> \o Replace(Tail(s), old, new)

\* sep.join(components)
RECURSIVE Join(_, _)
Join(components, sep) ==
    IF components = << >> THEN << >>
    ELSE IF Len(components) = 1 THEN components[1]
    ELSE components[1] \o sep \o Join(Tail(components), sep)

(***************************************************************************)
(* The order of str: by code point, letter by letter.  TokenOrder lists    *)
(* the tokens that occur in sort keys in ascending order; no token of it   *)
(* is a prefix of another, so the order of strings is the lexicographic    *)
(* order of their token sequences.                                         *)
(***************************************************************************)
TokenOrder ==
    <<"/", "awards", "bidders", "bids", "details", "id", "lotGroups", "lots", "name",
      "parties", "planning", "tender">>

TokenRank(t) == IndexOf(TokenOrder, t)

RECURSIVE StrLess(_, _)
StrLess(a, b) ==
    IF b = << >> THEN FALSE
    ELSE IF a = << >> THEN TRUE
    ELSE IF a[1] = b[1] THEN StrLess(Tail(a), Tail(b))
    ELSE TokenRank(a[1]) < TokenRank(b[1])

\* itemgetter(0, 1)(row) < itemgetter(0, 1)(other): tuples compare item by item.
KeyLess(row, other) ==
    \/ StrLess(row[1], other[1])
    \/ row[1] = other[1] /\ StrLess(row[2], other[2])

\* list.sort(key=itemgetter(0, 1)): a stable sort; each row is placed after
\* the rows whose key is not greater.
RECURSIVE InsertSorted(_, _)
InsertSorted(sorted, row) ==
    IF sorted = << >> THEN <<row>>
    ELSE IF KeyLess(row, sorted[Len(sorted)])
         THEN Append(InsertSorted(SliceButLast(sorted), row), sorted[Len(sorted)])
         ELSE Append(sorted, row)

RECURSIVE SortRows(_)
SortRows(rows) ==
    IF rows = << >> THEN << >>
    ELSE InsertSorted(SortRows(SliceButLast(rows)), rows[Len(rows)])

(***************************************************************************)
(* dict.get(key, default) and dict[key] on a dict whose keys are literals  *)
(* of the code, modelled as a record that may lack fields.  The empty      *)
(* dict {} is << >>.                                                       *)
(***************************************************************************)
Get(d, key, default) == IF key \in DOMAIN d THEN d[key] ELSE default

KeyError == <<"<KeyError>">>

Item(d, key) == IF key \in DOMAIN d THEN d[key] ELSE KeyError

(***************************************************************************)
(* The names of the sheets (manage.py, lines 80-90).                       *)
(***************************************************************************)
mapping_sheetnames ==
    <<Str("general"), Str("planning"), Str("tender"), Str("awards"),
      Str("contracts"), Str("implementation")>>

\* sheetnames with the two schema sheets first.
SchemaSheetsFirst == <<Str("schema"), Str("schema_extensions")>> \o mapping_sheetnames

sheetnames == mapping_sheetnames \o <<Str("schema"), Str("schema_extensions")>>

extension_rows_names == Range(mapping_sheetnames) \cup {Str("parties")}

(***************************************************************************)
(* Inputs: the strings table of the command-line entry point, in two       *)
(* languages.                                                              *)
(***************************************************************************)
Langs == {Str("en"), Str("es")}

PlainStringKeys ==
    {"path_header", "type_header", "title_header", "description_header",
     "mapping_header", "example_header", "notes_header", "general_help_text",
     "additional_fields_note", "extension_section", "parties_description",
     "standard_name", "organization_reference_id_title", "overview",
     "source_systems", "source_fields", "general_title"}

StringKeys ==
    {Str(key) : key \in PlainStringKeys}
        \cup {sheetnames[n] \o Str("_sheetname") : n \in DOMAIN sheetnames}

StringText(key, language) ==
    IF key = Str("organization_reference_id_title")
    THEN (IF language = Str("en") THEN Str("Organization ID")
          ELSE Str("ID de Organizacion"))
    ELSE IF key = Str("standard_name")
    THEN (IF language = Str("en") THEN Str("Open Contracting Data Standard")
          ELSE Str("Estandar de Datos de Contrataciones Abiertas"))
    ELSE <<"text of ">> \o key \o <<" in ">> \o language

FullStrings == [key \in StringKeys |-> [language \in Langs |-> StringText(key, language)]]

\* The table without one key, and the table in which one key lacks a language.
WithoutKey(table, key) == [other \in DOMAIN table \ {key} |-> table[other]]

WithoutLang(table, key, language) ==
    [table EXCEPT ![key] = [l \in DOMAIN table[key] \ {language} |-> table[key][l]]]

(***************************************************************************)
(* Inputs: the mapping file, a CSV file whose first row names the columns  *)
(* and whose last column is the extension column.                          *)
(***************************************************************************)
MappingHeader ==
    <<Str("section"), Str("path"), Str("title"), Str("description"), Str("type"),
      Str("range"), Str("values"), Str("links"), Str("deprecated"),
      Str("deprecationNotes"), Str("extension")>>

DevUrl == <<"https://standard.open-contracting.org/", "1.1-dev", "/en/">>

MappingRow(section, path, links, extension) ==
    <<section, path, <<"title of ">> \o path, <<"description of ">> \o path, Str("string"),
      Str("0..1"), << >>, links, << >>, << >>, extension>>

Seg(a, b) == <<a, "/", b>>

DefaultMappingRows ==
    <<MappingRow(<< >>, Str("ocid"), DevUrl, << >>),
      MappingRow(Str("tender"), Seg("tender", "lots"), DevUrl, Str("lots")),
      MappingRow(Str("tender"), Seg("tender", "lotGroups"), << >>, Str("lots")),
      MappingRow(Str("awards"), Seg("awards", "bidders"), << >>, Str("bids")),
      MappingRow(Str("parties"), Seg("parties", "details"), << >>, Str("lots"))>>

MappingRowPool ==
    <<MappingRow(Str("planning"), Seg("planning", "id"), DevUrl, << >>),
      MappingRow(Str("tender"), Seg("tender", "lots"), DevUrl, Str("lots")),
      MappingRow(Str("tender"), Seg("tender", "lotGroups"), << >>, Str("lots")),
      MappingRow(Str("awards"), Seg("awards", "bidders"), << >>, Str("bids")),
      MappingRow(Str("parties"), Seg("parties", "name"), << >>, << >>)>>

DefaultDescriptions ==
    [name \in {Str("lots"), Str("bids")} |-> <<"description of ">> \o name]

\* A mapping file and descriptions with a second extension of the tender
\* stage.
EnquiriesMappingRows ==
    DefaultMappingRows
        \o <<MappingRow(Str("tender"), Seg("tender", "enquiries"), << >>, Str("enquiries"))>>

EnquiriesDescriptions ==
    [name \in {Str("lots"), Str("bids"), Str("enquiries")} |-> <<"description of ">> \o name]

(***************************************************************************)
(* Inputs: the fields that get_schema_fields yields for the patched        *)
(* schema.  A field has its path components, the schema fragment at that   *)
(* path (a dict that may lack keys), and the required and deprecated       *)
(* flags.                                                                  *)
(***************************************************************************)
OrgIdTitle == Str("Organization ID")

IdSchema(title) == [id |-> [title |-> title]]

PlainSchema(type, name) ==
    [type |-> Str(type), title |-> <<"title of ", name>>,
     description |-> <<"description of ", name>>]

\* An object with an `id` property: an organization reference when the
\* title of that property is the Organization ID title.
ObjectSchema(name, id_title) ==
    [type |-> Str("object"), title |-> <<"title of ", name>>,
     description |-> <<"description of ", name>>, properties |-> IdSchema(id_title)]

\* An object whose properties have no `id`.
ObjectWithoutId(name) ==
    [type |-> Str("object"), title |-> <<"title of ", name>>,
     description |-> <<"description of ", name>>,
     properties |-> [scale |-> [title |-> Str("Scale")]]]

\* An array whose items have an `id` property.
ArraySchema(name, id_title) ==
    [type |-> Str("array"), title |-> <<"title of ", name>>,
     description |-> <<"description of ", name>>,
     items |-> [properties |-> IdSchema(id_title)]]

Field(components, schema, required, deprecated) ==
    [path_components |-> components, schema |-> schema, required |-> required,
     deprecated |-> deprecated]

FieldPool ==
    <<Field(<<Str("planning")>>, PlainSchema("object", "planning"), TRUE, FALSE),
      Field(<<Str("contracts"), Str("implementation")>>,
            PlainSchema("object", "implementation"), FALSE, FALSE),
      Field(<<Str("contracts"), Str("implementation"), Str("status")>>,
            PlainSchema("string", "status"), FALSE, TRUE),
      Field(<<Str("contracts"), Str("id")>>, PlainSchema("string", "id"), TRUE, FALSE),
      Field(<<Str("buyer")>>, ObjectSchema("buyer", OrgIdTitle), FALSE, FALSE),
      Field(<<Str("tender"), Str("lots")>>, ArraySchema("lots", Str("Lot ID")), FALSE, FALSE),
      Field(<<Str("tender"), Str("lotGroups")>>,
            ArraySchema("lotGroups", Str("Lot group ID")), TRUE, FALSE),
      Field(<<Str("awards"), Str("bidders")>>,
            ArraySchema("bidders", OrgIdTitle), FALSE, FALSE),
      Field(<<Str("parties"), Str("details")>>,
            ObjectWithoutId("details"), FALSE, FALSE)>>

\* The fields of the parties section and the organization references.
PartiesPool ==
    <<Field(<<Str("buyer")>>, ObjectSchema("buyer", OrgIdTitle), FALSE, FALSE),
      Field(<<Str("tender"), Str("tenderers")>>,
            ArraySchema("tenderers", OrgIdTitle), FALSE, FALSE),
      Field(<<Str("awards"), Str("bidders")>>,
            ArraySchema("bidders", OrgIdTitle), FALSE, FALSE),
      Field(<<Str("parties")>>, ArraySchema("parties", Str("Entity ID")), FALSE, FALSE),
      Field(<<Str("parties"), Str("name")>>, PlainSchema("string", "name"), FALSE, FALSE),
      Field(<<Str("parties"), Str("id")>>, PlainSchema("string", "id"), TRUE, FALSE)>>

\* Schema fragments that lack a key the code reads.
MalformedPool ==
    <<Field(<<Str("awards")>>,
            [type |-> Str("object"), title |-> <<"title of ", "awards">>], FALSE, FALSE),
      Field(<<Str("tender")>>,
            [type |-> Str("object"), description |-> <<"description of ", "tender">>],
            FALSE, FALSE),
      Field(<<Str("date")>>, [title |-> <<"title of ", "date">>], FALSE, FALSE),
      Field(<<Str("tender"), Str("lots")>>, ArraySchema("lots", Str("Lot ID")), FALSE, FALSE),
      Field(<<Str("planning")>>, PlainSchema("object", "planning"), FALSE, FALSE)>>

\* Deprecated fields of each kind (a stage root, organization references
\* with and without an extension, a field of the parties section) next to
\* fields that are not deprecated.
DeprecatedPool ==
    <<Field(<<Str("tender")>>, PlainSchema("object", "tender"), FALSE, TRUE),
      Field(<<Str("tender"), Str("procuringEntity")>>,
            ObjectSchema("procuringEntity", OrgIdTitle), FALSE, TRUE),
      Field(<<Str("awards"), Str("bidders")>>,
            ArraySchema("bidders", OrgIdTitle), FALSE, TRUE),
      Field(<<Str("parties"), Str("name")>>, PlainSchema("string", "name"), TRUE, TRUE),
      Field(<<Str("contracts"), <<"implementation", "Updates">>>>,
            PlainSchema("string", "implementationUpdates"), FALSE, FALSE),
      Field(<<Str("parties")>>, ArraySchema("parties", Str("Entity ID")), FALSE, FALSE)>>

\* The fields of one stage: its root, fields of the core and a field of an
\* extension.
StagePool ==
    <<Field(<<Str("tender")>>, PlainSchema("object", "tender"), FALSE, FALSE),
      Field(<<Str("tender"), Str("title")>>, PlainSchema("string", "title"), FALSE, FALSE),
      Field(<<Str("tender"), Str("id")>>, PlainSchema("string", "id"), TRUE, FALSE),
      Field(<<Str("tender"), Str("lots")>>, ArraySchema("lots", Str("Lot ID")), FALSE, FALSE)>>

\* The fields that two extensions add to one stage, next to a field of the
\* core.
ExtensionsPool ==
    <<Field(<<Str("tender"), Str("lots")>>, ArraySchema("lots", Str("Lot ID")), FALSE, FALSE),
      Field(<<Str("tender"), Str("enquiries")>>,
            ArraySchema("enquiries", Str("Identifier")), FALSE, FALSE),
      Field(<<Str("tender"), Str("lotGroups")>>,
            ArraySchema("lotGroups", Str("Lot group ID")), FALSE, FALSE),
      Field(<<Str("tender"), Str("id")>>, PlainSchema("string", "id"), FALSE, FALSE)>>

\* Two organization references of one extension, next to fields of the
\* parties section.
ExtensionOrgsPool ==
    <<Field(<<Str("parties"), Str("name")>>, PlainSchema("string", "name"), FALSE, FALSE),
      Field(<<Str("parties"), Str("id")>>, PlainSchema("string", "id"), TRUE, FALSE),
      Field(<<Str("tender"), Str("lots")>>, ArraySchema("lots", OrgIdTitle), FALSE, FALSE),
      Field(<<Str("tender"), Str("lotGroups")>>,
            ObjectSchema("lotGroups", OrgIdTitle), FALSE, FALSE)>>

\* A field of the definitions subtree of the schema, as get_schema_fields
\* yields it, next to fields of the release.
DefinitionsPool ==
    <<[path_components |-> <<Str("name")>>, schema |-> PlainSchema("string", "name"),
       required |-> FALSE, deprecated |-> FALSE,
       definition_pointer_components |-> <<"definitions", "Organization">>],
      Field(<<Str("date")>>, PlainSchema("string", "date"), TRUE, FALSE),
      Field(<<Str("tender")>>, PlainSchema("object", "tender"), FALSE, FALSE)>>

\* The sequences of at most n distinct positions of a pool, and the fields
\* at those positions: the paths of a schema's fields are distinct.
RECURSIVE Picks(_, _)
Picks(size, n) ==
    IF n = 0 THEN {<< >>}
    ELSE LET shorter == Picks(size, n - 1)
         IN shorter \cup
            UNION {{Append(pick, j) : j \in (1..size) \ Range(pick)} :
                      pick \in {p \in shorter : Len(p) = n - 1}}

ListsOf(pool, n) ==
    {[j \in DOMAIN pick |-> pool[pick[j]]] : pick \in Picks(Len(pool), n)}

\* The lists of at most n fields of a pool in the order of the pool.
SubListsOf(pool, n) ==
    {[j \in DOMAIN pick |-> pool[pick[j]]] :
        pick \in {p \in Picks(Len(pool), n) :
                     \A a, b \in DOMAIN p : a < b => p[a] < p[b]}}

(***************************************************************************)
(* The output directory: one CSV file per sheet.  A file is absent, or     *)
(* holds the rows written to it; complete is false for a file whose        *)
(* writing failed half way, the rows of such a file being unknown.         *)
(***************************************************************************)
FileName(key) == Str("output/") \o key \o Str("_mapping.csv")

OutputFiles == {FileName(sheetnames[j]) : j \in DOMAIN sheetnames}

NoFile == [written |-> FALSE, complete |-> FALSE, rows |-> << >>]

(***************************************************************************)
(* The state: the attributes of the generator, the patched schema, the     *)
(* locals of generate_mapping_sheets and _save_sheets, the output          *)
(* directory and the drive.                                                *)
(***************************************************************************)
VARIABLES strings, lang, extension_descriptions, mapping_file, save_to, previous,
          field_extensions, schema, pc, raised, n, heap, sheets, sheet_headers,
          extension_rows, parties_rows, org_refs, org_refs_extensions, headers,
          outputs, files, uploads, ids

vars == <<strings, lang, extension_descriptions, mapping_file, save_to, previous,
          field_extensions, schema, pc, raised, n, heap, sheets, sheet_headers,
          extension_rows, parties_rows, org_refs, org_refs_extensions, headers,
          outputs, files, uploads, ids>>

inputs == <<strings, lang, extension_descriptions, mapping_file, save_to, previous,
            field_extensions, schema>>

accumulators == <<heap, sheets, sheet_headers, extension_rows, parties_rows,
                  org_refs, org_refs_extensions, headers>>

saved == <<outputs, files, uploads, ids>>

(***************************************************************************)
(* __init__: the extension of each path, read from the mapping file with   *)
(* csv.DictReader.  The first data row is consumed by next(reader) before  *)
(* the loop.                                                               *)
(***************************************************************************)
\* row.get(name) of a DictReader row: the cell under the column of that name.
Column(header, row, name) ==
    IF IndexOf(header, name) = 0 THEN NoneValue ELSE row[IndexOf(header, name)]

Truthy(value) == value # NoneValue /\ value # << >>

RECURSIVE ReadExtensions(_, _, _)
ReadExtensions(header, rows, result) ==
    IF rows = << >> THEN result
    ELSE LET row == rows[1]
             extension == Column(header, row, Str("extension"))
             path == Column(header, row, Str("path"))
         IN ReadExtensions(header, Tail(rows),
                IF Truthy(extension)
                THEN [p \in DOMAIN result \cup {path} |->
                         IF p = path THEN extension ELSE result[p]]
                ELSE result)

FieldExtensions(file) == ReadExtensions(file[1], SliceFrom(file, 2), << >>)

(***************************************************************************)
(* The initial states: a constructed generator, before                     *)
(* generate_mapping_sheets is called.  The inputs are drawn from            *)
(* families: lists of schema fields, the parties section with its          *)
(* organization references, deprecated fields, organization references    *)
(* of an extension, the fields of one stage with two extensions, a field   *)
(* of the definitions subtree, mapping files, and incomplete strings       *)
(* tables or schema fragments.                                             *)
(***************************************************************************)
Schema(fields) == [description |-> Str("description of the schema"), fields |-> fields]

DefaultMappingFile == <<MappingHeader>> \o DefaultMappingRows

MappingFiles ==
    {<<MappingHeader>> \o rows : rows \in ListsOf(MappingRowPool, MaxRows) \ {<< >>}}

StringsTables ==
    {FullStrings}
        \cup {WithoutKey(FullStrings, key) : key \in StringKeys}
        \cup {WithoutLang(FullStrings, key, Str("en")) : key \in StringKeys}

StringsPool ==
    <<Field(<<Str("planning")>>, PlainSchema("object", "planning"), FALSE, FALSE),
      Field(<<Str("tender"), Str("lots")>>, ArraySchema("lots", Str("Lot ID")), FALSE, FALSE)>>

InitInputs ==
    \/ /\ schema \in {Schema(fields) : fields \in SubListsOf(FieldPool, MaxFields)}
       /\ mapping_file = DefaultMappingFile
       /\ strings = FullStrings
       /\ lang = Str("en")
       /\ extension_descriptions = DefaultDescriptions
       /\ save_to = Str("local")
    \/ /\ schema \in {Schema(fields) : fields \in ListsOf(PartiesPool, MaxFields + 1)}
       /\ mapping_file = DefaultMappingFile
       /\ strings = FullStrings
       /\ lang = Str("en")
       /\ extension_descriptions = DefaultDescriptions
       /\ save_to = Str("local")
    \/ /\ schema \in {Schema(fields) : fields \in ListsOf(DeprecatedPool, MaxFields)
                                                \cup ListsOf(ExtensionOrgsPool, MaxFields + 1)}
       /\ mapping_file = DefaultMappingFile
       /\ strings = FullStrings
       /\ lang = Str("en")
       /\ extension_descriptions = DefaultDescriptions
       /\ save_to = Str("local")
    \/ /\ schema \in {Schema(fields) : fields \in ListsOf(StagePool, MaxFields)
                                                \cup ListsOf(ExtensionsPool, MaxFields)
                                                \cup ListsOf(DefinitionsPool, MaxFields)}
       /\ mapping_file = <<MappingHeader>> \o EnquiriesMappingRows
       /\ strings = FullStrings
       /\ lang = Str("en")
       /\ extension_descriptions = EnquiriesDescriptions
       /\ save_to = Str("local")
    \/ /\ schema \in {Schema(fields) : fields \in ListsOf(StringsPool, 1)}
       /\ mapping_file \in MappingFiles
       /\ strings = FullStrings
       /\ lang = Str("en")
       /\ extension_descriptions = DefaultDescriptions
       /\ save_to = Str("local")
    \/ /\ schema \in {Schema(fields) : fields \in ListsOf(StringsPool, 1)}
       /\ mapping_file = DefaultMappingFile
       /\ strings \in StringsTables
       /\ lang \in Langs
       /\ extension_descriptions = DefaultDescriptions
       /\ save_to \in {Str("drive"), Str("local")}
    \/ /\ schema \in {Schema(fields) : fields \in ListsOf(MalformedPool, 2)}
                 \cup {[fields |-> << >>]}
       /\ mapping_file = DefaultMappingFile
       /\ strings = FullStrings
       /\ lang = Str("en")
       /\ extension_descriptions \in {DefaultDescriptions, [name \in {Str("bids")} |-> Str("Bids")]}
       /\ save_to = Str("drive")

Init ==
    /\ InitInputs
    /\ previous = [file \in OutputFiles |-> NoFile]
    /\ field_extensions = FieldExtensions(mapping_file)
    /\ pc = "start"
    /\ raised = "None"
    /\ n = 1
    /\ heap = << >>
    /\ sheets = [name \in Range(sheetnames) |-> << >>]
    /\ sheet_headers = [name \in Range(mapping_sheetnames) |-> << >>]
    /\ extension_rows = [name \in extension_rows_names |-> << >>]
    /\ parties_rows = << >>
    /\ org_refs = << >>
    /\ org_refs_extensions = << >>
    /\ headers = 0
    /\ outputs = << >>
    /\ files = [file \in OutputFiles |-> NoFile]
    /\ uploads = << >>
    /\ ids = << >>

(***************************************************************************)
(* get_string, lines 60-61: self.strings[key][self.lang].                  *)
(***************************************************************************)
\* Lookup with a default, as dict.get would give: a missing string is empty.
LookupOrEmpty(table, key, language) ==
    IF key \in DOMAIN table /\ language \in DOMAIN table[key]
    THEN table[key][language]
    ELSE << >>

Lookup(table, key, language) ==
    IF key \in DOMAIN table /\ language \in DOMAIN table[key]
    THEN table[key][language]
    ELSE KeyError

get_string(key) == Lookup(strings, key, lang)

Fail(exception) ==
    /\ pc' = "error"
    /\ raised' = exception

(***************************************************************************)
(* Lists of rows.  Alloc gives the references of rows appended to the      *)
(* heap.                                                                   *)
(***************************************************************************)
Alloc(h, rows) == [j \in DOMAIN rows |-> Len(h) + j]

Deref(h, refs) == [j \in DOMAIN refs |-> h[refs[j]]]

\* An insertion-ordered dict of lists: key in d, d[key], and
\* "if key not in d: d[key] = []" followed by d[key].extend(refs).
DictKeys(d) == {d[j].name : j \in DOMAIN d}

DictRows(d, key) == d[CHOOSE j \in DOMAIN d : d[j].name = key].rows

\* DictExtend without the test of line 235: the list of the key is emptied
\* each time.
DictReset(d, key, refs) ==
    IF key \in DictKeys(d)
    THEN [j \in DOMAIN d |-> IF d[j].name = key THEN [d[j] EXCEPT !.rows = refs] ELSE d[j]]
    ELSE Append(d, [name |-> key, rows |-> refs])

\* DictExtend without the test of line 235: an entry is added each time.
DictAppend(d, key, refs) == Append(d, [name |-> key, rows |-> refs])

DictExtend(d, key, refs) ==
    IF key \in DictKeys(d)
    THEN [j \in DOMAIN d |->
             IF d[j].name = key THEN [d[j] EXCEPT !.rows = @ \o refs] ELSE d[j]]
    ELSE Append(d, [name |-> key, rows |-> refs])

(***************************************************************************)
(* get_patched_schema, lines 63-74 and 78: the schema is fetched and       *)
(* patched by external services, which may fail.                           *)
(***************************************************************************)
GetPatchedSchema ==
    /\ pc = "start"
    /\ \E ok \in BOOLEAN :
          IF ok THEN pc' = "load_mapping" /\ UNCHANGED raised
          ELSE Fail("RequestException")
    /\ UNCHANGED <<inputs, n, accumulators, saved>>

(***************************************************************************)
(* Lines 92-116: the schema and schema_extensions sheets.                  *)
(***************************************************************************)
\* Lines 101-103: the version in the link of a row.
FixUrl(row) == [row EXCEPT ![8] = Replace(@, Str("1.1-dev"), Str("1.1.5"))]

DataRows(file) == [j \in 1..(Len(file) - 1) |-> FixUrl(file[j + 1])]

HasExtension(row) == row[11] # << >>

HasNoExtension(row) == ~HasExtension(row)

\* Lines 98 and 107.
SchemaSheet(file) ==
    LET core == SelectSeq(DataRows(file), HasNoExtension)
    IN <<SliceButLast(file[1])>> \o [j \in DOMAIN core |-> SliceButLast(core[j])]

\* Line 110: the extension column is moved to the beginning.
MoveExtension(row) == SliceLast(row) \o SliceInner(row)

\* Lines 105 and 110-116.
SchemaExtensionsSheet(file) ==
    LET extended == SelectSeq(DataRows(file), HasExtension)
    IN <<MoveExtension(file[1])>> \o
       SortRows([j \in DOMAIN extended |-> MoveExtension(extended[j])])

LoadMappingSheet ==
    /\ pc = "load_mapping"
    /\ LET schema_rows == SchemaSheet(mapping_file)
           extension_sheet == SchemaExtensionsSheet(mapping_file)
           heap1 == heap \o schema_rows
       IN /\ heap' = heap1 \o extension_sheet
          /\ sheets' = [sheets EXCEPT ![Str("schema")] = Alloc(heap, schema_rows),
                                      ![Str("schema_extensions")] =
                                          Alloc(heap1, extension_sheet)]
    /\ pc' = "headers"
    /\ UNCHANGED <<inputs, raised, n, sheet_headers, extension_rows, parties_rows,
                   org_refs, org_refs_extensions, headers, saved>>

(***************************************************************************)
(* Lines 118-145: the description of the schema is read (its links are     *)
(* removed in a value that is not read again) and the column_headers row   *)
(* is built from six strings.                                              *)
(***************************************************************************)
depth == 0

HeaderKeys ==
    <<Str("path_header"), Str("title_header"), Str("description_header"),
      Str("mapping_header"), Str("example_header"), Str("notes_header")>>

HeadersRow ==
    <<Str("column_headers"), depth>> \o [j \in DOMAIN HeaderKeys |-> get_string(HeaderKeys[j])]

BuildHeaders ==
    /\ pc = "headers"
    /\ IF "description" \notin DOMAIN schema \/ KeyError \in Range(SliceFrom(HeadersRow, 2))
       THEN Fail("KeyError") /\ UNCHANGED <<heap, headers>>
       ELSE /\ heap' = Append(heap, HeadersRow)
            /\ headers' = Len(heap) + 1
            /\ pc' = "fields"
            /\ UNCHANGED raised
    /\ UNCHANGED <<inputs, n, sheets, sheet_headers, extension_rows, parties_rows,
                   org_refs, org_refs_extensions, saved>>

(***************************************************************************)
(* Lines 147-240: the pass over the fields of the schema, one field per    *)
(* step.                                                                   *)
(***************************************************************************)
StageRoots ==
    {Str("planning"), Str("tender"), Str("awards"), Str("contracts"),
     <<"contracts", "/", "implementation">>}

\* field.path once field.sep is set (line 153).
FieldPath(field, sep) == Join(field.path_components, sep)

\* Line 156.
FieldExtension(path) == Get(field_extensions, path, << >>)

\* Lines 158-167; KeyError when a field that is no stage lacks its type.
FormatKey(field, path) ==
    IF path \in StageRoots THEN Str("title")
    ELSE IF "type" \notin DOMAIN field.schema THEN KeyError
    ELSE IF field.schema["type"] \in {Str("object"), Str("array")} THEN Str("span")
    ELSE Str("field")

\* FormatPrefix with the tests of lines 169 and 171 in the other order.
FormatPrefixRequiredFirst(field, field_extension) ==
    IF field.required THEN Str("required_")
    ELSE IF field_extension # << >> THEN Str("extension_")
    ELSE << >>

\* Lines 169-174.
FormatPrefix(field, field_extension) ==
    IF field_extension # << >> THEN Str("extension_")
    ELSE IF field.required THEN Str("required_")
    ELSE << >>

\* IsOrganizationReference without the test of the items, line 180.
IsOrganizationReferenceObject(fragment, title) ==
    Get(Get(Get(fragment, "properties", << >>), "id", << >>), "title", NoneValue) = title

\* Lines 178-181.
IsOrganizationReference(fragment, title) ==
    \/ Get(Get(Get(fragment, "properties", << >>), "id", << >>), "title", NoneValue) = title
    \/ Get(Get(Get(Get(fragment, "items", << >>), "properties", << >>), "id", << >>),
           "title", NoneValue) = title

\* Lines 193-196.
Section(path) ==
    IF IndexOf(path, "/") = 0 THEN path ELSE SubSeq(path, 1, IndexOf(path, "/") - 1)

\* SheetName without the test of line 201: every field under contracts goes
\* to the contracts sheet.
SheetNameBySection(path) ==
    IF Section(path) \in {Str("planning"), Str("tender"), Str("awards"), Str("contracts")}
    THEN Section(path)
    ELSE IF Section(path) = Str("parties") THEN Str("parties")
    ELSE Str("general")

\* Lines 198-213.
SheetName(path) ==
    IF Section(path) \in {Str("planning"), Str("tender"), Str("awards")} THEN Section(path)
    ELSE IF Section(path) = Str("contracts")
         THEN (IF Contains(path, <<"contracts", "/", "implementation">>)
               THEN Str("implementation")
               ELSE Str("contracts"))
    ELSE IF Section(path) = Str("parties") THEN Str("parties")
    ELSE Str("general")

\* FieldRow with the default depth for every row.
FieldRowFlat(format, row_depth, path) == <<format, depth, path>>

\* FieldRow with a title cell after the path.
FieldRowWithTitle(format, row_depth, path) ==
    <<format, row_depth, path, <<"title of ">> \o path>>

\* FieldRow with the depth of an organization reference for every row.
FieldRowDeep(format, row_depth, path) == <<format, 1, path>>

\* Lines 182 and 232.
FieldRow(format, row_depth, path) == <<format, row_depth, path>>

\* TitleRow without the name of the standard.
TitleRowBare(standard_name, title) == <<Str("title"), depth, title>>

\* Lines 215-229.
TitleRow(standard_name, title) == <<Str("title"), depth, standard_name \o Str(": ") \o title>>

SubtitleRow(description) == <<Str("subtitle"), depth, description>>

\* AppendRow without the else of line 238: the row of an extension field is
\* added to the list of its sheet as well.
AppendRowToBoth(lists, field_extension, sheetname, row) ==
    LET bucketed ==
            IF field_extension # << >>
            THEN [lists EXCEPT
                     !.extension_rows[sheetname] = DictExtend(@, field_extension, <<row>>)]
            ELSE lists
    IN IF sheetname = Str("parties")
       THEN [bucketed EXCEPT !.parties_rows = Append(@, row)]
       ELSE [bucketed EXCEPT !.sheets[sheetname] = Append(@, row)]

\* Lines 234-240: the row goes to the bucket of its extension under the
\* name of its sheet, or else to the list of its sheet, which is
\* parties_rows for the parties section.
AppendRow(lists, field_extension, sheetname, row) ==
    IF field_extension # << >>
    THEN [lists EXCEPT !.extension_rows[sheetname] = DictExtend(@, field_extension, <<row>>)]
    ELSE IF sheetname = Str("parties")
    THEN [lists EXCEPT !.parties_rows = Append(@, row)]
    ELSE [lists EXCEPT !.sheets[sheetname] = Append(@, row)]

\* Skipped without the test of line 149: no field is skipped.
SkippedNever(field) == FALSE

\* Lines 149-150: a deprecated field is skipped.
Skipped(field) == field.deprecated

FieldStep ==
    /\ pc = "fields"
    /\ n <= Len(schema.fields)
    /\ LET field == schema.fields[n]
           path == FieldPath(field, Str("/"))
           field_extension == FieldExtension(path)
           format_key == FormatKey(field, path)
           format == FormatPrefix(field, field_extension) \o format_key
           title == get_string(Str("organization_reference_id_title"))
           is_org == IsOrganizationReference(field.schema, title)
           org == Len(heap) + 1
           heap1 == IF is_org THEN Append(heap, FieldRow(format, 1, path)) ELSE heap
           org_refs1 ==
               IF is_org /\ field_extension = << >> THEN Append(org_refs, org) ELSE org_refs
           org_refs_extensions1 ==
               IF is_org /\ field_extension # << >>
               THEN DictExtend(org_refs_extensions, field_extension, <<org>>)
               ELSE org_refs_extensions
           sheetname == SheetName(path)
           standard_name == get_string(Str("standard_name"))
           schema_title == Item(field.schema, "title")
           description == Item(field.schema, "description")
           row == Len(heap1) + 1
       IN IF Skipped(field)
          THEN /\ n' = n + 1
               /\ UNCHANGED <<pc, raised, accumulators>>
          ELSE IF format_key = KeyError \/ title = KeyError
          THEN /\ Fail("KeyError")
               /\ UNCHANGED <<n, accumulators>>
          ELSE IF format_key = Str("title")
          THEN /\ org_refs' = org_refs1
               /\ org_refs_extensions' = org_refs_extensions1
               /\ UNCHANGED <<sheets, extension_rows, parties_rows, headers>>
               /\ IF standard_name = KeyError \/ schema_title = KeyError
                  THEN /\ Fail("KeyError")
                       /\ heap' = heap1
                       /\ UNCHANGED <<n, sheet_headers>>
                  ELSE IF description = KeyError
                  THEN /\ Fail("KeyError")
                       /\ heap' = Append(heap1, TitleRow(standard_name, schema_title))
                       /\ sheet_headers' = [sheet_headers EXCEPT ![sheetname] = Append(@, row)]
                       /\ UNCHANGED n
                  ELSE /\ heap' = heap1 \o <<TitleRow(standard_name, schema_title),
                                             SubtitleRow(description)>>
                       /\ sheet_headers' =
                              [sheet_headers EXCEPT ![sheetname] = @ \o <<row, row + 1>>]
                       /\ n' = n + 1
                       /\ UNCHANGED <<pc, raised>>
          ELSE /\ heap' = Append(heap1, FieldRow(format, depth, path))
               /\ org_refs' = org_refs1
               /\ org_refs_extensions' = org_refs_extensions1
               /\ LET lists == AppendRow([sheets |-> sheets,
                                           extension_rows |-> extension_rows,
                                           parties_rows |-> parties_rows],
                                          field_extension, sheetname, row)
                  IN /\ sheets' = lists.sheets
                     /\ extension_rows' = lists.extension_rows
                     /\ parties_rows' = lists.parties_rows
               /\ n' = n + 1
               /\ UNCHANGED <<pc, raised, sheet_headers, headers>>
    /\ UNCHANGED <<inputs, saved>>

(***************************************************************************)
(* Lines 242-257, after the last field: the static header of the general   *)
(* sheet, then each sheet becomes its header entries, the column_headers   *)
(* row and its body.                                                       *)
(***************************************************************************)
\* WithHeaders with the column_headers row before the header entries.
WithHeadersAfter(name, header_refs) == <<headers>> \o header_refs \o sheets[name]

WithHeaders(name, header_refs) == header_refs \o <<headers>> \o sheets[name]

AddSheetHeaders ==
    /\ pc = "fields"
    /\ n > Len(schema.fields)
    /\ LET standard_name == get_string(Str("standard_name"))
           general_title == get_string(Str("general_title"))
           help_text == get_string(Str("general_help_text"))
           row == Len(heap) + 1
           general == Str("general")
       IN IF standard_name = KeyError \/ general_title = KeyError
          THEN /\ Fail("KeyError")
               /\ UNCHANGED <<n, heap, sheets, sheet_headers>>
          ELSE IF help_text = KeyError
          THEN /\ Fail("KeyError")
               /\ heap' = Append(heap, TitleRow(standard_name, general_title))
               /\ sheet_headers' = [sheet_headers EXCEPT ![general] = Append(@, row)]
               /\ UNCHANGED <<n, sheets>>
          ELSE /\ heap' = heap \o <<TitleRow(standard_name, general_title),
                                    SubtitleRow(help_text)>>
               /\ sheet_headers' = [sheet_headers EXCEPT ![general] = @ \o <<row, row + 1>>]
               /\ sheets' = [name \in DOMAIN sheets |->
                                IF name \in Range(mapping_sheetnames)
                                THEN WithHeaders(name, sheet_headers'[name])
                                ELSE sheets[name]]
               /\ pc' = "parties"
               /\ n' = 1
               /\ UNCHANGED raised
    /\ UNCHANGED <<inputs, extension_rows, parties_rows, org_refs, org_refs_extensions,
                   headers, saved>>

(***************************************************************************)
(* Lines 259-267: the parties section of the general sheet.  Each          *)
(* organization reference is renamed in place and followed by the rows of  *)
(* the parties section.                                                    *)
(***************************************************************************)
\* PartiesTemplate without the slice: the first row of the parties section
\* is repeated too.
PartiesTemplateWhole(rows) == rows

\* parties_rows[1:]
PartiesTemplate(rows) == SliceFrom(rows, 1)

RECURSIVE RepeatedParties(_, _)
RepeatedParties(refs, template) ==
    IF refs = << >> THEN << >>
    ELSE <<refs[1]>> \o template \o RepeatedParties(Tail(refs), template)

RepeatParties ==
    /\ pc = "parties"
    /\ LET description == get_string(Str("parties_description"))
           heap1 == Append(heap, SubtitleRow(description))
           general == Str("general")
       IN IF description = KeyError
          THEN Fail("KeyError") /\ UNCHANGED <<heap, sheets>>
          ELSE /\ heap' = [ref \in DOMAIN heap1 |->
                              IF ref \in Range(org_refs)
                              THEN [heap1[ref] EXCEPT ![1] = Str("ref_span")]
                              ELSE heap1[ref]]
               /\ sheets' = [sheets EXCEPT ![general] =
                                @ \o <<Len(heap1)>> \o
                                RepeatedParties(org_refs, PartiesTemplate(parties_rows))]
               /\ pc' = "extension_orgs"
               /\ UNCHANGED raised
    /\ UNCHANGED <<inputs, n, sheet_headers, extension_rows, parties_rows, org_refs,
                   org_refs_extensions, headers, saved>>

(***************************************************************************)
(* Lines 269-281: the organization references of extensions go to the      *)
(* bucket of their extension in the general sheet, each followed by the    *)
(* extension copy of the parties section.                                  *)
(***************************************************************************)
\* ExtensionPartiesRow without the prefix of line 271.
ExtensionPartiesRowPlain(x) == <<x[1], x[2], x[3]>>

\* Line 271.
ExtensionPartiesRow(x) == <<Str("extension_") \o x[1], x[2], x[3]>>

RECURSIVE AddOrgs(_, _, _)
AddOrgs(bucket, entries, copies) ==
    IF entries = << >> THEN bucket
    ELSE AddOrgs(DictExtend(bucket, entries[1].name,
                            RepeatedParties(entries[1].rows, copies)),
                 Tail(entries), copies)

AddExtensionOrgs ==
    /\ pc = "extension_orgs"
    /\ LET template == PartiesTemplate(parties_rows)
           extension_parties_rows ==
               [j \in DOMAIN template |-> ExtensionPartiesRow(heap[template[j]])]
           general == Str("general")
       IN /\ heap' = heap \o extension_parties_rows
          /\ extension_rows' =
                 [extension_rows EXCEPT
                     ![general] = AddOrgs(@, org_refs_extensions,
                                          Alloc(heap, extension_parties_rows))]
    /\ pc' = "finish"
    /\ n' = 1
    /\ UNCHANGED <<inputs, raised, sheets, sheet_headers, parties_rows, org_refs,
                   org_refs_extensions, headers, saved>>

(***************************************************************************)
(* Lines 283-307, once per stage sheet: the extension section, the         *)
(* additional fields section and the padding of the rows.                  *)
(***************************************************************************)
SectionRow(text) == <<Str("section"), 0, text>>

ExtensionRow(extension_name, description) ==
    <<Str("extension"), 0, extension_name \o Str(": ") \o description>>

AdditionalFieldRow == <<Str("additional_field"), 0>>

AdditionalFieldCount == 4

\* Lines 290-294: the list is a record of the heap, the rows of the sheet
\* and whether no description was missing so far.
RECURSIVE AppendExtensions(_, _)
AppendExtensions(list, entries) ==
    IF entries = << >> THEN list
    ELSE LET description == Item(extension_descriptions, entries[1].name)
         IN IF description = KeyError THEN [list EXCEPT !.ok = FALSE]
            ELSE AppendExtensions(
                     [heap |-> Append(list.heap, ExtensionRow(entries[1].name, description)),
                      rows |-> list.rows \o <<Len(list.heap) + 1>> \o entries[1].rows,
                      ok |-> TRUE],
                     Tail(entries))

\* ExtensionSection without the test of line 284.
ExtensionSectionAlways(list, bucket) ==
    IF get_string(Str("extension_section")) = KeyError THEN [list EXCEPT !.ok = FALSE]
    ELSE AppendExtensions(
             [heap |-> Append(list.heap, SectionRow(get_string(Str("extension_section")))),
              rows |-> Append(list.rows, Len(list.heap) + 1),
              ok |-> TRUE],
             bucket)

\* Lines 284-294.
ExtensionSection(list, bucket) ==
    IF Len(bucket) = 0 THEN list
    ELSE IF get_string(Str("extension_section")) = KeyError THEN [list EXCEPT !.ok = FALSE]
    ELSE AppendExtensions(
             [heap |-> Append(list.heap, SectionRow(get_string(Str("extension_section")))),
              rows |-> Append(list.rows, Len(list.heap) + 1),
              ok |-> TRUE],
             bucket)

\* AdditionalFields with range(3).
AdditionalFieldsShort(list) ==
    IF ~list.ok \/ get_string(Str("additional_fields_note")) = KeyError
    THEN [list EXCEPT !.ok = FALSE]
    ELSE LET added == <<SectionRow(get_string(Str("additional_fields_note")))>> \o
                      [j \in 1..(AdditionalFieldCount - 1) |-> AdditionalFieldRow]
         IN [heap |-> list.heap \o added,
             rows |-> list.rows \o Alloc(list.heap, added),
             ok |-> TRUE]

\* Lines 296-300.
AdditionalFields(list) ==
    IF ~list.ok \/ get_string(Str("additional_fields_note")) = KeyError
    THEN [list EXCEPT !.ok = FALSE]
    ELSE LET added == <<SectionRow(get_string(Str("additional_fields_note")))>> \o
                      [j \in 1..AdditionalFieldCount |-> AdditionalFieldRow]
         IN [heap |-> list.heap \o added,
             rows |-> list.rows \o Alloc(list.heap, added),
             ok |-> TRUE]

\* Padded with a number of cells that fits the rows of three cells only.
PaddedByFive(row, width) ==
    IF Len(row) < width THEN row \o [j \in 1..(width - 3) |-> << >>] ELSE row

\* Lines 304-307: each row of the sheet shorter than the column_headers
\* row is extended in place with empty cells.
Padded(row, width) ==
    IF Len(row) < width THEN row \o [j \in 1..(width - Len(row)) |-> << >>] ELSE row

PadRows(h, refs, width) ==
    [ref \in DOMAIN h |-> IF ref \in Range(refs) THEN Padded(h[ref], width) ELSE h[ref]]

FinishSheet ==
    /\ pc = "finish"
    /\ LET name == mapping_sheetnames[n]
           list == AdditionalFields(
                       ExtensionSection([heap |-> heap, rows |-> sheets[name], ok |-> TRUE],
                                        extension_rows[name]))
       IN /\ sheets' = [sheets EXCEPT ![name] = list.rows]
          /\ IF list.ok
             THEN /\ heap' = PadRows(list.heap, list.rows, Len(heap[headers]))
                  /\ IF n = Len(mapping_sheetnames)
                     THEN pc' = "save" /\ n' = 1
                     ELSE pc' = pc /\ n' = n + 1
                  /\ UNCHANGED raised
             ELSE /\ heap' = list.heap
                  /\ Fail("KeyError")
                  /\ UNCHANGED n
    /\ UNCHANGED <<inputs, sheet_headers, extension_rows, parties_rows, org_refs,
                   org_refs_extensions, headers, saved>>

(***************************************************************************)
(* _save_sheets, lines 311-340.                                            *)
(***************************************************************************)
\* Lines 312-314: authentication against the drive, an external service.
AuthenticatePydrive ==
    /\ pc = "save"
    /\ save_to = Str("drive")
    /\ \E ok \in BOOLEAN :
          IF ok THEN pc' = "outputs" /\ UNCHANGED raised
          ELSE Fail("AuthenticationError")
    /\ UNCHANGED <<inputs, n, accumulators, saved>>

\* Lines 316-328: one output per sheet, in the order of the sheets.
Output(key) ==
    [sheet |-> sheets[key], file |-> FileName(key),
     sheetname |-> get_string(key \o Str("_sheetname"))]

PrepareOutputs ==
    /\ \/ pc = "outputs"
       \/ pc = "save" /\ save_to # Str("drive")
    /\ LET all == [j \in DOMAIN sheetnames |-> Output(sheetnames[j])]
           missing == {j \in DOMAIN all : all[j].sheetname = KeyError}
       IN IF missing # {}
          THEN /\ Fail("KeyError")
               /\ outputs' = SubSeq(all, 1, (CHOOSE j \in missing : \A m \in missing : j <= m) - 1)
               /\ UNCHANGED n
          ELSE /\ outputs' = all
               /\ pc' = "write"
               /\ n' = 1
               /\ UNCHANGED raised
    /\ UNCHANGED <<inputs, accumulators, files, uploads, ids>>

\* Lines 330-332.  csv.writer writes str(cell): the second cell of a row of
\* a stage sheet is a number, every other cell is a str.
Decimal(number) == IF number = 0 THEN Str("0") ELSE Str("1")

StageFiles == {FileName(mapping_sheetnames[j]) : j \in DOMAIN mapping_sheetnames}

CsvRows(file, rows) ==
    IF file \in StageFiles
    THEN [j \in DOMAIN rows |-> [rows[j] EXCEPT ![2] = Decimal(@)]]
    ELSE rows

\* Written with the title of the sheet on the drive as the first row of an
\* uploaded file.
WrittenWithTitle(output) ==
    [written |-> TRUE, complete |-> TRUE,
     rows |-> IF save_to = Str("drive")
              THEN <<<<output.sheetname>>>> \o CsvRows(output.file, Deref(heap, output.sheet))
              ELSE CsvRows(output.file, Deref(heap, output.sheet))]

\* Written for a file that is not closed after writerows: its rows are not
\* known to be in the file.
WrittenNotClosed(output) == [written |-> TRUE, complete |-> FALSE, rows |-> << >>]

Written(output) ==
    [written |-> TRUE, complete |-> TRUE,
     rows |-> CsvRows(output.file, Deref(heap, output.sheet))]

\* What follows the file of output n: its upload, the next file, or the end.
AfterWrite == IF save_to = Str("drive") THEN "upload" ELSE IF n = Len(outputs) THEN "done" ELSE "write"

WriteFile ==
    /\ pc = "write"
    /\ \E outcome \in {"written", "not opened", "not finished"} :
          CASE outcome = "written" ->
                  /\ files' = [files EXCEPT ![outputs[n].file] = Written(outputs[n])]
                  /\ pc' = AfterWrite
                  /\ n' = IF save_to = Str("drive") \/ n = Len(outputs) THEN n ELSE n + 1
                  /\ UNCHANGED raised
            [] outcome = "not opened" ->
                  /\ Fail("OSError")
                  /\ UNCHANGED <<files, n>>
            [] outcome = "not finished" ->
                  /\ Fail("OSError")
                  /\ files' = [files EXCEPT ![outputs[n].file] =
                                  [written |-> TRUE, complete |-> FALSE, rows |-> << >>]]
                  /\ UNCHANGED n
    /\ UNCHANGED <<inputs, accumulators, outputs, uploads, ids>>

\* Lines 334-338: the file is uploaded under the name of its sheet; the id
\* the drive gives it is the number of the upload.
Upload ==
    /\ pc = "upload"
    /\ \E ok \in BOOLEAN :
          IF ok
          THEN /\ uploads' = Append(uploads, [title |-> outputs[n].sheetname,
                                             content |-> files[outputs[n].file].rows])
               /\ ids' = Append(ids, Len(uploads) + 1)
               /\ pc' = IF n = Len(outputs) THEN "done" ELSE "write"
               /\ n' = IF n = Len(outputs) THEN n ELSE n + 1
               /\ UNCHANGED raised
          ELSE /\ Fail("ApiRequestError")
               /\ UNCHANGED <<uploads, ids, n>>
    /\ UNCHANGED <<inputs, accumulators, outputs, files>>

(***************************************************************************)
(* A second run of the script on the same schema, mapping file, strings    *)
(* and descriptions with the other value of save_to, in an empty output    *)
(* directory: previous keeps the files the first run wrote.                *)
(***************************************************************************)
Rerun ==
    /\ pc = "done"
    /\ previous = [file \in OutputFiles |-> NoFile]
    /\ Len(schema.fields) <= MaxRerunFields
    /\ previous' = files
    /\ save_to' = IF save_to = Str("drive") THEN Str("local") ELSE Str("drive")
    /\ pc' = "start"
    /\ n' = 1
    /\ heap' = << >>
    /\ sheets' = [name \in Range(sheetnames) |-> << >>]
    /\ sheet_headers' = [name \in Range(mapping_sheetnames) |-> << >>]
    /\ extension_rows' = [name \in extension_rows_names |-> << >>]
    /\ parties_rows' = << >>
    /\ org_refs' = << >>
    /\ org_refs_extensions' = << >>
    /\ headers' = 0
    /\ outputs' = << >>
    /\ files' = [file \in OutputFiles |-> NoFile]
    /\ uploads' = << >>
    /\ ids' = << >>
    /\ UNCHANGED <<strings, lang, extension_descriptions, mapping_file, field_extensions,
                   schema, raised>>

Next ==
    \/ Rerun
    \/ GetPatchedSchema
    \/ LoadMappingSheet
    \/ BuildHeaders
    \/ FieldStep
    \/ AddSheetHeaders
    \/ RepeatParties
    \/ AddExtensionOrgs
    \/ FinishSheet
    \/ AuthenticatePydrive
    \/ PrepareOutputs
    \/ WriteFile
    \/ Upload

Spec == Init /\ [][Next]_vars

(***************************************************************************)
(* Properties.                                                             *)
(***************************************************************************)
FieldPassDone == pc = "fields" /\ n > Len(schema.fields)

Finished == pc \in {"save", "outputs", "write", "upload", "done"}

PathOf(j) == FieldPath(schema.fields[j], Str("/"))

Live(j) == ~schema.fields[j].deprecated

IsStageRoot(j) == PathOf(j) \in StageRoots

IsOrgRef(j) ==
    IsOrganizationReference(schema.fields[j].schema,
                            get_string(Str("organization_reference_id_title")))

HasExtensionAssignment(j) == PathOf(j) \in DOMAIN field_extensions

\* The positions of a list of rows whose path cell is the path.
RowsWithPath(refs, path) == {k \in DOMAIN refs : heap[refs[k]][3] = path}

\* The number of rows of a path in the body lists of the stage sheets, in
\* the extension buckets, in the organization-reference lists and in the
\* parties template.
RECURSIVE SumOver(_, _)
SumOver(counts, keys) ==
    IF keys = {} THEN 0
    ELSE LET key == CHOOSE k \in keys : TRUE
         IN counts[key] + SumOver(counts, keys \ {key})

BucketCount(bucket, path) ==
    SumOver([e \in DOMAIN bucket |-> Cardinality(RowsWithPath(bucket[e].rows, path))],
            DOMAIN bucket)

BodyCount(path) ==
    SumOver([name \in Range(mapping_sheetnames) |->
                Cardinality(RowsWithPath(sheets[name], path))],
            Range(mapping_sheetnames))

ExtensionCount(path) ==
    SumOver([name \in extension_rows_names |-> BucketCount(extension_rows[name], path)],
            extension_rows_names)

OrgRefCount(path) ==
    Cardinality(RowsWithPath(org_refs, path)) + BucketCount(org_refs_extensions, path)

PartiesCount(path) == Cardinality(RowsWithPath(parties_rows, path))

Sign(count) == IF count > 0 THEN 1 ELSE 0

C2_NoFieldDropped ==
    FieldPassDone =>
        \A j \in DOMAIN schema.fields :
            Live(j) /\ ~IsStageRoot(j) =>
                BodyCount(PathOf(j)) + ExtensionCount(PathOf(j))
                    + OrgRefCount(PathOf(j)) + PartiesCount(PathOf(j)) >= 1

C2_Witness ==
    /\ FieldPassDone
    /\ \E j, k \in DOMAIN schema.fields :
          /\ j # k
          /\ Live(j) /\ Live(k)
          /\ HasExtensionAssignment(j) /\ HasExtensionAssignment(k)
          /\ SheetName(PathOf(j)) = SheetName(PathOf(k))
          /\ field_extensions[PathOf(j)] = field_extensions[PathOf(k)]

\* The sheet of a stage root.
RootSheet(path) ==
    IF path = <<"contracts", "/", "implementation">> THEN Str("implementation") ELSE path

\* C3: at the end of the field pass a non-deprecated stage root has no row
\* in a body list or an extension bucket, and the header accumulator of its
\* sheet holds exactly one title entry, '<standard name>: <schema title>',
\* immediately followed by exactly one subtitle entry with the description
\* of the schema.
C3_StageRootHeader ==
    FieldPassDone =>
        \A j \in DOMAIN schema.fields :
            Live(j) /\ IsStageRoot(j) =>
                LET entries == Deref(heap, sheet_headers[RootSheet(PathOf(j))])
                    titles == {k \in DOMAIN entries : entries[k][1] = Str("title")}
                    subtitles == {k \in DOMAIN entries : entries[k][1] = Str("subtitle")}
                IN /\ BodyCount(PathOf(j)) = 0
                   /\ ExtensionCount(PathOf(j)) = 0
                   /\ PartiesCount(PathOf(j)) = 0
                   /\ Cardinality(titles) = 1
                   /\ Cardinality(subtitles) = 1
                   /\ \A k \in titles :
                         /\ entries[k] =
                                <<Str("title"), 0,
                                  get_string(Str("standard_name")) \o Str(": ")
                                      \o schema.fields[j].schema["title"]>>
                         /\ k + 1 \in subtitles
                         /\ entries[k + 1] =
                                <<Str("subtitle"), 0, schema.fields[j].schema["description"]>>

C3_Witness ==
    /\ FieldPassDone
    /\ \E j, k \in DOMAIN schema.fields :
          /\ Live(j) /\ PathOf(j) = <<"contracts", "/", "implementation">>
          /\ Live(k) /\ PathOf(k) = Str("planning")
          /\ Len(sheet_headers[Str("implementation")]) = 2

\* A stage sheet is finished once its step of the assembly has run.
SheetFinished(m) == Finished \/ (pc = "finish" /\ m < n)

\* C4: every row of every finished stage sheet has as many cells as the
\* column_headers row, which has eight.
C4_EqualColumnCount ==
    \A m \in DOMAIN mapping_sheetnames :
        SheetFinished(m) =>
            /\ Len(heap[headers]) = 8
            /\ \A k \in DOMAIN sheets[mapping_sheetnames[m]] :
                  Len(heap[sheets[mapping_sheetnames[m]][k]]) = Len(heap[headers])

C4_Witness ==
    /\ Finished
    /\ Len(org_refs) >= 2
    /\ Len(parties_rows) >= 2
    /\ \A k \in DOMAIN sheets[Str("general")] : Len(heap[sheets[Str("general")][k]]) = 8

\* The rows of the mapping file with an extension, in the order of the file,
\* and the data rows of the schema_extensions sheet.
ExtensionFileRows == SelectSeq(Tail(mapping_file), HasExtension)

SchemaExtensionsData == Tail(Deref(heap, sheets[Str("schema_extensions")]))

\* The sheet is built by the step before pc = "headers" and is not changed
\* up to the end of the run.
MappingLoaded == pc \in {"headers", "done"}

Orderings(m) == {f \in [1..m -> 1..m] : \A a, b \in 1..m : a # b => f[a] # f[b]}

PairLess(a1, a2, b1, b2) == StrLess(a1, b1) \/ (a1 = b1 /\ StrLess(a2, b2))

\* The data rows are the rows of the file with an extension, each with its
\* extension in front of its cells from the path on, in ascending order of
\* the pair of cells (first, second), rows with equal pairs in the order of
\* the file.
SortedByColumns(first, second) ==
    \E f \in Orderings(Len(ExtensionFileRows)) :
        /\ Len(SchemaExtensionsData) = Len(ExtensionFileRows)
        /\ \A a \in DOMAIN SchemaExtensionsData :
              SchemaExtensionsData[a] =
                  <<ExtensionFileRows[f[a]][11]>>
                      \o SubSeq(FixUrl(ExtensionFileRows[f[a]]), 2, 10)
        /\ \A a, b \in DOMAIN SchemaExtensionsData :
              a < b =>
                  LET row == ExtensionFileRows[f[a]]
                      other == ExtensionFileRows[f[b]]
                  IN /\ ~PairLess(other[first], other[second], row[first], row[second])
                     /\ (row[first] = other[first] /\ row[second] = other[second])
                            => f[a] < f[b]

\* C5: the data rows of schema_extensions are sorted ascending by
\* (extension, stage), the stage being the section column of the mapping
\* file, and rows with equal pairs keep the order of the file.
C5_SortedByExtensionAndStage == MappingLoaded => SortedByColumns(11, 1)

\* What the sort of the code yields: the section column is dropped before
\* the sort, whose key is then the extension and the path.
SortedByExtensionAndPath == MappingLoaded => SortedByColumns(11, 2)

Blank == << >>

\* The core organization references and the core fields of the parties
\* section, in the order of the input.
IsCoreRef(field) ==
    /\ ~field.deprecated
    /\ FieldPath(field, Str("/")) \notin DOMAIN field_extensions
    /\ IsOrganizationReference(field.schema,
                               get_string(Str("organization_reference_id_title")))

IsCorePartiesField(field) ==
    /\ ~field.deprecated
    /\ FieldPath(field, Str("/")) \notin DOMAIN field_extensions
    /\ field.path_components[1] = Str("parties")

RefSpanRow(field) ==
    <<Str("ref_span"), 1, FieldPath(field, Str("/")), Blank, Blank, Blank, Blank, Blank>>

TemplateRow(field) ==
    <<FormatPrefix(field, << >>) \o FormatKey(field, FieldPath(field, Str("/"))), 0,
      FieldPath(field, Str("/")), Blank, Blank, Blank, Blank, Blank>>

RECURSIVE ExpectedPartiesSection(_, _)
ExpectedPartiesSection(refs, template) ==
    IF refs = << >> THEN << >>
    ELSE <<RefSpanRow(refs[1])>> \o [j \in DOMAIN template |-> TemplateRow(template[j])]
             \o ExpectedPartiesSection(Tail(refs), template)

\* The rows of the finished general sheet after the subtitle row of the
\* parties section and before the next section row.
PartiesSection ==
    LET general == Deref(heap, sheets[Str("general")])
        start == CHOOSE k \in DOMAIN general :
                     /\ general[k][1] = Str("subtitle")
                     /\ general[k][3] = get_string(Str("parties_description"))
        end == CHOOSE k \in DOMAIN general :
                   /\ k > start
                   /\ general[k][1] = Str("section")
                   /\ \A m \in (start + 1)..(k - 1) : general[m][1] # Str("section")
    IN SubSeq(general, start + 1, end - 1)

\* C6: with core organization references r1..rn and parties template
\* t0..tk, the rows of the finished general sheet between the parties
\* subtitle row and the following sections are r1, t1..tk, ..., rn, t1..tk;
\* each reference has the format key ref_span and t0 is left out.
C6_PartiesRepeatedPerReference ==
    Finished =>
        PartiesSection =
            ExpectedPartiesSection(
                SelectSeq(schema.fields, IsCoreRef),
                SubSeq(SelectSeq(schema.fields, IsCorePartiesField), 2,
                       Len(SelectSeq(schema.fields, IsCorePartiesField))))

C6_Witness ==
    /\ Finished
    /\ Len(SelectSeq(schema.fields, IsCoreRef)) = 2
    /\ Len(SelectSeq(schema.fields, IsCorePartiesField)) = 2
    /\ Len(PartiesSection) = 4

\* The explanatory section row of the extensions and the extension rows of
\* a sheet.
ExtensionSectionRows(rows) ==
    {k \in DOMAIN rows :
        rows[k][1] = Str("section") /\ rows[k][3] = get_string(Str("extension_section"))}

ExtensionTitleRows(rows) == {k \in DOMAIN rows : rows[k][1] = Str("extension")}

\* C7: a finished stage sheet has the explanatory section row of the
\* extensions and extension rows if and only if its extension bucket is not
\* empty; when no field has an extension assignment, no stage sheet has
\* either.
C7_ExtensionSectionIffBucket ==
    \A m \in DOMAIN mapping_sheetnames :
        SheetFinished(m) =>
            LET rows == Deref(heap, sheets[mapping_sheetnames[m]])
                filled == Len(extension_rows[mapping_sheetnames[m]]) > 0
            IN /\ filled <=> ExtensionSectionRows(rows) # {}
               /\ filled <=> ExtensionTitleRows(rows) # {}
               /\ (\A j \in DOMAIN schema.fields : ~HasExtensionAssignment(j)) =>
                      ExtensionSectionRows(rows) = {} /\ ExtensionTitleRows(rows) = {}

C7_Witness ==
    /\ Finished
    /\ Len(extension_rows[Str("general")]) > 0
    /\ Len(extension_rows[Str("tender")]) > 0
    /\ ExtensionSectionRows(Deref(heap, sheets[Str("tender")])) # {}
    /\ ExtensionSectionRows(Deref(heap, sheets[Str("planning")])) = {}

\* C8: every finished stage sheet ends with exactly five rows, the section
\* row of the additional fields and four additional_field rows whose other
\* cells are blank; no other row of the sheet is one of these.
C8_AdditionalFieldsAtEnd ==
    \A m \in DOMAIN mapping_sheetnames :
        SheetFinished(m) =>
            LET rows == Deref(heap, sheets[mapping_sheetnames[m]])
                last == Len(rows)
            IN /\ last >= 5
               /\ rows[last - 4] =
                      <<Str("section"), 0, get_string(Str("additional_fields_note")),
                        Blank, Blank, Blank, Blank, Blank>>
               /\ \A k \in (last - 3)..last :
                     rows[k] = <<Str("additional_field"), 0, Blank, Blank, Blank, Blank,
                                 Blank, Blank>>
               /\ \A k \in 1..(last - 5) :
                     /\ rows[k][1] # Str("additional_field")
                     /\ rows[k][3] # get_string(Str("additional_fields_note"))

C8_Witness ==
    /\ Finished
    /\ Len(extension_rows[Str("awards")]) > 0
    /\ Len(sheets[Str("awards")]) >= 8
    /\ Len(sheets[Str("planning")]) = 6

NoFileWritten == \A file \in OutputFiles : ~files[file].written

\* C9 as stated: whenever a run has failed, at whatever step, none of the
\* output files has been written by it, not even counting the files whose
\* writing was begun and not finished.
C9_NoFileAfterAnyFailure == pc = "error" => \A file \in OutputFiles : ~files[file].complete

\* C9 amended: a run that fails before _save_sheets writes its first file
\* (schema fetch, malformed schema fragment, missing string, missing
\* extension description, authentication) has written no output file; a
\* run that fails at the write or the upload of a sheet has written, and
\* closed, the files of all the sheets before that one.
C9_NoFileAfterFailureBeforeSaving ==
    /\ pc = "error" /\ raised \notin {"OSError", "ApiRequestError"} => NoFileWritten
    /\ pc = "error" /\ raised \in {"OSError", "ApiRequestError"} =>
          /\ \A m \in 1..(n - 1) :
                files[outputs[m].file].written /\ files[outputs[m].file].complete
          /\ \A m \in (n + 1)..Len(outputs) : ~files[outputs[m].file].written
          /\ raised = "ApiRequestError" => files[outputs[n].file].complete

C9_Witness ==
    /\ pc = "error"
    /\ raised = "ApiRequestError"
    /\ n = 3
    /\ files[FileName(Str("planning"))].complete
    /\ ~files[FileName(Str("awards"))].written

\* The strings a run reads: the ones of every run, the title of the
\* organization id when a field is not deprecated, the explanation of the
\* extensions when the bucket of a stage sheet is not empty.
Present(key) == key \in DOMAIN strings /\ lang \in DOMAIN strings[key]

StringsNeeded ==
    Range(HeaderKeys)
        \cup {Str("standard_name"), Str("general_title"), Str("general_help_text"),
              Str("parties_description"), Str("additional_fields_note")}
        \cup {sheetnames[j] \o Str("_sheetname") : j \in DOMAIN sheetnames}
        \cup (IF \E j \in DOMAIN schema.fields : Live(j)
              THEN {Str("organization_reference_id_title")} ELSE {})
        \cup (IF \E m \in DOMAIN mapping_sheetnames :
                     Len(extension_rows[mapping_sheetnames[m]]) > 0
              THEN {Str("extension_section")} ELSE {})

\* C10: get_string fails for a key, or a language under the key, that the
\* strings table lacks, and returns the string of the table otherwise; a
\* run whose table lacks a string it needs does not end normally, and no
\* row or sheet name holds a value put in place of a missing string.
C10_MissingStringIsFatal ==
    /\ \A key \in StringKeys :
          get_string(key) = (IF Present(key) THEN strings[key][lang] ELSE KeyError)
    /\ pc = "done" => \A key \in StringsNeeded : Present(key)
    /\ headers # 0 =>
          \A j \in DOMAIN HeaderKeys :
              Present(HeaderKeys[j]) /\ heap[headers][j + 2] = strings[HeaderKeys[j]][lang]
    /\ \A j \in DOMAIN outputs :
          /\ Present(sheetnames[j] \o Str("_sheetname"))
          /\ outputs[j].sheetname = strings[sheetnames[j] \o Str("_sheetname")][lang]

C10_Witness ==
    /\ pc = "error"
    /\ raised = "KeyError"
    /\ ~Present(Str("extension_section"))
    /\ Len(extension_rows[Str("tender")]) > 0
    /\ Len(sheets[Str("general")]) > 3

\* The path cell of a row of a stage sheet, if it has one.
PathCell(row) == IF Len(row) >= 3 THEN row[3] ELSE NoneValue

\* The rows of the sheets, the header entries, the buckets and the lists
\* that hold a value of a field: its path, or its title or description in
\* a header entry.
HoldsPath(refs, path) == \E k \in DOMAIN refs : PathCell(heap[refs[k]]) = path

BucketHoldsPath(bucket, path) == \E e \in DOMAIN bucket : HoldsPath(bucket[e].rows, path)

HeaderOf(field) ==
    {k \in DOMAIN heap :
        /\ heap[k][1] \in {Str("title"), Str("subtitle")}
        /\ \/ heap[k] = SubtitleRow(Item(field.schema, "description"))
           \/ heap[k] = TitleRow(get_string(Str("standard_name")), Item(field.schema, "title"))}

\* C11: a deprecated field contributes nothing: at every step its path is
\* in no row of a stage sheet, of an extension bucket, of the
\* organization-reference lists or of the parties template, and no title
\* or subtitle entry was made from it.
C11_DeprecatedContributesNothing ==
    \A j \in DOMAIN schema.fields :
        schema.fields[j].deprecated =>
            /\ \A name \in Range(mapping_sheetnames) : ~HoldsPath(sheets[name], PathOf(j))
            /\ \A name \in extension_rows_names :
                  ~BucketHoldsPath(extension_rows[name], PathOf(j))
            /\ ~HoldsPath(org_refs, PathOf(j))
            /\ ~BucketHoldsPath(org_refs_extensions, PathOf(j))
            /\ ~HoldsPath(parties_rows, PathOf(j))
            /\ HeaderOf(schema.fields[j]) = {}
            /\ IsStageRoot(j) => sheet_headers[RootSheet(PathOf(j))] = << >>

C11_Witness ==
    /\ Finished
    /\ \E j, k, m \in DOMAIN schema.fields :
          /\ ~Live(j) /\ IsStageRoot(j)
          /\ ~Live(k) /\ IsOrgRef(k)
          /\ Live(m) /\ HoldsPath(sheets[SheetName(PathOf(m))], PathOf(m))

\* The destination the first segment of a path stands for.
Destination(field) ==
    LET first == field.path_components[1]
    IN IF first \in {Str("planning"), Str("tender"), Str("awards")} THEN first
       ELSE IF first = Str("contracts")
            THEN (IF Contains(FieldPath(field, Str("/")), <<"contracts", "/", "implementation">>)
                  THEN Str("implementation")
                  ELSE Str("contracts"))
       ELSE IF first = Str("parties") THEN Str("parties")
       ELSE Str("general")

\* The row or the header entries of a field are in the lists of a name: the
\* body list and the bucket of a stage sheet and its header accumulator;
\* for parties, the parties template and the bucket of that name.
RoutedTo(j, name) ==
    \/ BucketHoldsPath(extension_rows[name], PathOf(j))
    \/ name = Str("parties") /\ HoldsPath(parties_rows, PathOf(j))
    \/ name # Str("parties") /\ HoldsPath(sheets[name], PathOf(j))
    \/ /\ name # Str("parties")
       /\ \E k \in DOMAIN sheet_headers[name] :
             sheet_headers[name][k] \in HeaderOf(schema.fields[j])

\* C12: at the end of the field pass every non-deprecated field is in the
\* lists of the destination of its first segment and of no other:
\* planning, tender and awards have the sheet of their name, contracts has
\* implementation when the path contains contracts/implementation and
\* contracts otherwise, parties has the parties accumulator and no stage
\* sheet, every other segment has general.
C12_RoutedByFirstSegment ==
    FieldPassDone =>
        \A j \in DOMAIN schema.fields :
            Live(j) =>
                \A name \in extension_rows_names :
                    RoutedTo(j, name) <=> name = Destination(schema.fields[j])

C12_Witness ==
    /\ FieldPassDone
    /\ \E j, k \in DOMAIN schema.fields :
          /\ Live(j) /\ PathOf(j) = <<"contracts", "/", "implementation", "Updates">>
          /\ RoutedTo(j, Str("implementation"))
          /\ Live(k) /\ PathOf(k) = Str("parties")
          /\ RoutedTo(k, Str("parties"))

\* The format keys of the rows the field pass made with a path: the rows
\* of the heap after the column_headers row.
EmittedKeys(path) ==
    {heap[k][1] : k \in {m \in DOMAIN heap : m > headers /\ heap[m][3] = path}}

ExpectedKey(j) ==
    (IF HasExtensionAssignment(j) THEN Str("extension_")
     ELSE IF schema.fields[j].required THEN Str("required_")
     ELSE << >>)
        \o (IF schema.fields[j].schema["type"] \in {Str("object"), Str("array")}
            THEN Str("span")
            ELSE Str("field"))

\* C13: at the end of the field pass the format key of every row of a
\* non-deprecated field that is no stage root is prefix + base: base is
\* span for the types object and array and field otherwise, prefix is
\* extension_ for a field with an extension assignment, else required_ for
\* a required field, else empty.  The key of the header entry of a stage
\* root is title, without a prefix.
C13_FormatKey ==
    FieldPassDone =>
        \A j \in DOMAIN schema.fields :
            Live(j) =>
                IF IsStageRoot(j)
                THEN /\ EmittedKeys(PathOf(j)) = {}
                     /\ heap[sheet_headers[RootSheet(PathOf(j))][1]][1] = Str("title")
                ELSE EmittedKeys(PathOf(j)) = {ExpectedKey(j)}

C13_Witness ==
    /\ FieldPassDone
    /\ \E j, k, m \in DOMAIN schema.fields :
          /\ Live(j) /\ HasExtensionAssignment(j) /\ schema.fields[j].required
          /\ EmittedKeys(PathOf(j)) = {Str("extension_") \o Str("span")}
          /\ Live(k) /\ EmittedKeys(PathOf(k)) = {Str("required_") \o Str("field")}
          /\ Live(m) /\ IsStageRoot(m) /\ schema.fields[m].required

\* The positions of the rows of a path in a list that no explanatory
\* section row of the extensions precedes.
BeforeExtensionSection(refs, path) ==
    {k \in DOMAIN refs :
        /\ PathCell(heap[refs[k]]) = path
        /\ \A m \in 1..(k - 1) : m \notin ExtensionSectionRows(Deref(heap, refs))}

\* C14: at every step, a field with an extension assignment has no row in
\* the parties template or the list of core organization references, and
\* every row of it in the list of a stage sheet lies after the explanatory
\* section row of the extensions of that sheet: during the field pass the
\* body lists hold no row of it, its rows are in the extension buckets.
C14_ExtensionFieldsOnlyInBuckets ==
    \A j \in DOMAIN schema.fields :
        HasExtensionAssignment(j) =>
            /\ ~HoldsPath(parties_rows, PathOf(j))
            /\ ~HoldsPath(org_refs, PathOf(j))
            /\ \A name \in Range(mapping_sheetnames) :
                  BeforeExtensionSection(sheets[name], PathOf(j)) = {}
            /\ pc \in {"fields", "parties", "extension_orgs"} =>
                  \A name \in Range(mapping_sheetnames) :
                      ~HoldsPath(sheets[name], PathOf(j))
            /\ pc \in {"parties", "extension_orgs"} /\ Live(j) /\ ~IsStageRoot(j) =>
                  \E name \in extension_rows_names :
                      BucketHoldsPath(extension_rows[name], PathOf(j))

C14_Witness ==
    /\ Finished
    /\ \E j, k \in DOMAIN schema.fields :
          /\ Live(j) /\ HasExtensionAssignment(j) /\ IsOrgRef(j)
          /\ HoldsPath(sheets[Str("general")], PathOf(j))
          /\ Live(k) /\ HasExtensionAssignment(k) /\ ~IsOrgRef(k)
          /\ HoldsPath(sheets[Str("tender")], PathOf(k))

\* The files of an earlier run are kept.
SecondRun == \E file \in OutputFiles : previous[file].written

\* C15: a run with save_to = drive and a run with save_to = local on the
\* same schema, mapping file and strings write the same rows to every
\* output file: every file the second run has written holds the rows the
\* first run wrote to it.
C15_SameRowsForDriveAndLocal ==
    SecondRun =>
        \A file \in OutputFiles :
            /\ previous[file].complete
            /\ files[file].complete => files[file].rows = previous[file].rows

C15_Witness ==
    /\ SecondRun
    /\ pc = "done"
    /\ save_to = Str("drive")
    /\ Len(uploads) = Len(sheetnames)
    /\ Len(extension_rows[Str("general")]) > 0
    /\ Len(org_refs_extensions) > 0

\* The rows of a finished stage sheet made for a field: the rows whose path
\* cell is the path of the field.
FieldRows(m, j) ==
    {k \in DOMAIN sheets[mapping_sheetnames[m]] :
        PathCell(heap[sheets[mapping_sheetnames[m]][k]]) = PathOf(j)}

\* C16 as stated: every row of a field in a finished stage sheet has eight
\* cells, the format key, the depth, the path, the title and the
\* description of the schema of the field, and three empty cells.
C16_RowsHoldTitleAndDescription ==
    \A m \in DOMAIN mapping_sheetnames :
        SheetFinished(m) =>
            \A j \in DOMAIN schema.fields :
                \A k \in FieldRows(m, j) :
                    LET row == heap[sheets[mapping_sheetnames[m]][k]]
                    IN /\ Len(row) = 8
                       /\ row[4] = schema.fields[j].schema["title"]
                       /\ row[5] = schema.fields[j].schema["description"]
                       /\ row[6] = Blank /\ row[7] = Blank /\ row[8] = Blank

\* C16 amended: every row of a field in a finished stage sheet has eight
\* cells, the format key, the depth (0 or 1), the path, and five empty
\* cells: the title and the description cells are empty like the mapping,
\* example and notes cells.
C16_RowsHoldPathAndBlanks ==
    \A m \in DOMAIN mapping_sheetnames :
        SheetFinished(m) =>
            \A j \in DOMAIN schema.fields :
                \A k \in FieldRows(m, j) :
                    LET row == heap[sheets[mapping_sheetnames[m]][k]]
                    IN /\ Len(row) = 8
                       /\ row[1] # Blank
                       /\ row[2] \in {0, 1}
                       /\ \A cell \in 4..8 : row[cell] = Blank

C16_Witness ==
    /\ Finished
    /\ \E j, k \in DOMAIN schema.fields :
          /\ Live(j) /\ ~IsOrgRef(j) /\ FieldRows(5, j) # {}
          /\ Live(k) /\ IsOrgRef(k) /\ Cardinality(FieldRows(1, k)) = 2

\* C17: the first cell of every row of every finished stage sheet is one
\* of title, subtitle, section, field, span, ref_span, extension_field,
\* extension_span, required_field, required_span, additional_field and
\* column_headers; a prefixed key is the prefix followed by the base.
C17_FormatKeyVocabulary ==
    LET vocabulary ==
            {Str("title"), Str("subtitle"), Str("section"), Str("field"), Str("span"),
             Str("ref_span"), Str("additional_field"), Str("column_headers")}
                \cup {prefix \o base : prefix \in {Str("extension_"), Str("required_")},
                                       base \in {Str("field"), Str("span")}}
    IN \A m \in DOMAIN mapping_sheetnames :
           SheetFinished(m) =>
               \A k \in DOMAIN sheets[mapping_sheetnames[m]] :
                   heap[sheets[mapping_sheetnames[m]][k]][1] \in vocabulary

\* The depths of the rows of a path in a list and in the lists of a bucket.
Depths(refs, path) == {heap[refs[k]][2] : k \in RowsWithPath(refs, path)}

BucketDepths(bucket, path) == UNION {Depths(bucket[e].rows, path) : e \in DOMAIN bucket}

PassFields(name) ==
    LET Appended(j) ==
            /\ Live(j)
            /\ ~IsStageRoot(j)
            /\ ~HasExtensionAssignment(j)
            /\ Destination(schema.fields[j]) = name
    IN SelectSeq([j \in DOMAIN schema.fields |-> j], Appended)

\* The positions of a finished sheet after the column_headers row that no
\* section row precedes.
BodyPositions(name) ==
    {k \in DOMAIN sheets[name] :
        /\ k > Len(sheet_headers[name]) + 1
        /\ \A q \in 1..k : heap[sheets[name][q]][1] # Str("section")}

ExtensionFields(name) ==
    LET Appended(j) ==
            /\ Live(j)
            /\ ~IsStageRoot(j)
            /\ HasExtensionAssignment(j)
            /\ Destination(schema.fields[j]) = name
    IN SelectSeq([j \in DOMAIN schema.fields |-> j], Appended)

ExtensionOrgRefs ==
    LET Appended(j) == Live(j) /\ HasExtensionAssignment(j) /\ IsOrgRef(j)
    IN SelectSeq([j \in DOMAIN schema.fields |-> j], Appended)

\* The names of a sequence in the order of their first occurrences.
RECURSIVE FirstSeen(_, _)
FirstSeen(names, seen) ==
    IF names = << >> THEN << >>
    ELSE IF names[1] \in seen THEN FirstSeen(Tail(names), seen)
    ELSE <<names[1]>> \o FirstSeen(Tail(names), seen \cup {names[1]})

\* The path cells that lines 276-281 add for organization references: each
\* reference, then the rows of the parties template.
RECURSIVE OrgCells(_, _)
OrgCells(orgs, template) ==
    IF orgs = << >> THEN << >>
    ELSE <<PathOf(orgs[1])>> \o template \o OrgCells(Tail(orgs), template)

\* The groups of an extension section computed from the input: for each
\* name, a title cell '<name>: <description>' and the path cells of the
\* rows of the name, first those of the field pass, then those of the
\* organization references.  An entry is a pair: is it a title, its cell.
RECURSIVE GroupCells(_, _, _, _)
GroupCells(names, pass, orgs, template) ==
    IF names = << >> THEN << >>
    ELSE LET Of(j) == field_extensions[PathOf(j)] = names[1]
             fields == SelectSeq(pass, Of)
             cells == [k \in DOMAIN fields |-> PathOf(fields[k])]
                          \o OrgCells(SelectSeq(orgs, Of), template)
         IN <<<<TRUE, names[1] \o Str(": ") \o Item(extension_descriptions, names[1])>>>>
                \o [k \in DOMAIN cells |-> <<FALSE, cells[k]>>]
                \o GroupCells(Tail(names), pass, orgs, template)

ExtensionNames(name) ==
    LET added == ExtensionFields(name)
                     \o (IF name = Str("general") THEN ExtensionOrgRefs ELSE << >>)
    IN FirstSeen([k \in DOMAIN added |-> field_extensions[PathOf(added[k])]], {})

ExtensionGroups(name) ==
    GroupCells(ExtensionNames(name),
               ExtensionFields(name),
               IF name = Str("general") THEN ExtensionOrgRefs ELSE << >>,
               [k \in DOMAIN PartiesTemplate(parties_rows) |->
                   PathCell(heap[PartiesTemplate(parties_rows)[k]])])

\* C20: in a finished stage sheet with a non-empty extension bucket, the
\* first section row is the explanatory row of the extensions; it is
\* followed, for each extension in the order in which a row of it was
\* first added to the bucket of the sheet, by one extension row with the
\* text '<name>: <description>' and then the rows of that extension in the
\* order in which they were added; the section row of the additional
\* fields follows the last group, and the sheet has one extension row per
\* name.
C20_ExtensionGroupsInFirstSeenOrder ==
    \A m \in DOMAIN mapping_sheetnames :
        LET name == mapping_sheetnames[m]
            refs == sheets[name]
            groups == ExtensionGroups(name)
            IsSection(k) == heap[refs[k]][1] = Str("section")
        IN (SheetFinished(m) /\ Len(extension_rows[name]) > 0) =>
              \E s \in DOMAIN refs :
                  /\ IsSection(s)
                  /\ \A k \in 1..(s - 1) : ~IsSection(k)
                  /\ PathCell(heap[refs[s]]) = get_string(Str("extension_section"))
                  /\ Len(groups) > 0
                  /\ Len(refs) > s + Len(groups)
                  /\ \A k \in DOMAIN groups :
                        <<heap[refs[s + k]][1] = Str("extension"),
                          PathCell(heap[refs[s + k]])>> = groups[k]
                  /\ IsSection(s + Len(groups) + 1)
                  /\ Cardinality({k \in DOMAIN refs : heap[refs[k]][1] = Str("extension")})
                         = Len(ExtensionNames(name))
                  /\ \A e \in DOMAIN extension_rows[name] :
                        extension_rows[name][e].name = ExtensionNames(name)[e]

C20_Witness ==
    /\ Finished
    /\ ExtensionNames(Str("tender")) = <<Str("lots"), Str("enquiries")>>
    /\ \E j, k, q \in DOMAIN schema.fields :
          /\ j < k /\ k < q
          /\ ExtensionFields(Str("tender")) = <<j, k, q>>
          /\ PathOf(j) = <<"tender", "/", "lots">>
          /\ PathOf(k) = <<"tender", "/", "enquiries">>
          /\ PathOf(q) = <<"tender", "/", "lotGroups">>

\* The first three cells of a row: its format key, depth and path.
Cells(row) == SubSeq(row, 1, 3)

\* The organization references of an extension, in the order of the pass.
ExtensionOrgRefsOf(extension) ==
    LET Of(j) == field_extensions[PathOf(j)] = extension
    IN SelectSeq(ExtensionOrgRefs, Of)

\* C21: once the organization references of the extensions are added, the
\* list of each extension in the bucket of the general sheet ends with,
\* for each organization reference of that extension in input order, the
\* row of the reference (depth 1, the row kept in org_refs_extensions)
\* followed by one row per row of the parties template without its first
\* row: the same depth and path, the format key prefixed with extension_,
\* and a row of its own.  The rows of the parties template are still the
\* rows that the field pass made.
C21_ExtensionOrgRefsWithPartiesCopy ==
    (pc = "finish" \/ Finished) =>
        LET template == PartiesTemplate(parties_rows)
            width == 1 + Len(template)
            parties == PassFields(Str("parties"))
        IN /\ \A e \in DOMAIN org_refs_extensions :
                 LET extension == org_refs_extensions[e].name
                     orgs == org_refs_extensions[e].rows
                     fields == ExtensionOrgRefsOf(extension)
                     rows == DictRows(extension_rows[Str("general")], extension)
                     first == Len(rows) - Len(orgs) * width
                 IN /\ extension \in DictKeys(extension_rows[Str("general")])
                    /\ Len(fields) = Len(orgs)
                    /\ first >= 0
                    /\ \A i \in DOMAIN orgs :
                          LET at == first + (i - 1) * width + 1
                          IN /\ rows[at] = orgs[i]
                             /\ heap[rows[at]][2] = 1
                             /\ heap[rows[at]][3] = PathOf(fields[i])
                             /\ \A t \in DOMAIN template :
                                   /\ rows[at + t] # template[t]
                                   /\ Cells(heap[rows[at + t]]) =
                                          <<Str("extension_") \o heap[template[t]][1],
                                            heap[template[t]][2],
                                            heap[template[t]][3]>>
           /\ Len(parties_rows) = Len(parties)
           /\ \A k \in DOMAIN parties_rows :
                 Cells(heap[parties_rows[k]]) =
                     <<ExpectedKey(parties[k]), 0, PathOf(parties[k])>>

C21_Witness ==
    /\ Finished
    /\ Len(parties_rows) = 2
    /\ \E e \in DOMAIN org_refs_extensions :
          /\ org_refs_extensions[e].name = Str("lots")
          /\ Len(org_refs_extensions[e].rows) = 2
          /\ heap[org_refs_extensions[e].rows[1]][3] = <<"tender", "/", "lotGroups">>
    /\ Len(DictRows(extension_rows[Str("general")], Str("lots"))) = 4

\* The rows that the field pass kept in the lists of organization
\* references.
PlacedOrgRefs ==
    Range(org_refs) \cup UNION {Range(org_refs_extensions[e].rows) : e \in DOMAIN org_refs_extensions}

\* C22: in a finished stage sheet the depth of a row is 1 if the row is one
\* of the organization-reference rows taken from org_refs or
\* org_refs_extensions, and 0 otherwise.  A row of org_refs is a ref_span
\* row of the general sheet before its extension section, a row of
\* org_refs_extensions is in the extension section of the general sheet;
\* the row of the same field in its nominal sheet or bucket and the copies
\* of the parties template have depth 0.
C22_DepthOneIffPlacedOrgRef ==
    \A m \in DOMAIN mapping_sheetnames :
        SheetFinished(m) =>
            LET name == mapping_sheetnames[m]
                refs == sheets[name]
            IN \A k \in DOMAIN refs :
                  LET row == heap[refs[k]]
                      in_extensions == \E q \in 1..(k - 1) : heap[refs[q]][1] = Str("section")
                  IN /\ row[2] \in {0, 1}
                     /\ row[2] = 1 <=> refs[k] \in PlacedOrgRefs
                     /\ refs[k] \in Range(org_refs) =>
                           /\ name = Str("general")
                           /\ row[1] = Str("ref_span")
                           /\ ~in_extensions
                     /\ refs[k] \in PlacedOrgRefs \ Range(org_refs) =>
                           name = Str("general") /\ in_extensions

C22_Witness ==
    /\ Finished
    /\ Depths(sheets[Str("tender")], <<"tender", "/", "tenderers">>) = {0}
    /\ Depths(sheets[Str("general")], <<"tender", "/", "tenderers">>) = {1}
    /\ Depths(sheets[Str("general")], <<"awards", "/", "bidders">>) = {1}
    /\ Depths(sheets[Str("awards")], <<"awards", "/", "bidders">>) = {0}
    /\ Depths(sheets[Str("general")], <<"parties", "/", "id">>) = {0}

\* The rows of the mapping file without an extension, in the order of the
\* file, and the data rows of the schema sheet.
CoreFileRows == SelectSeq(Tail(mapping_file), HasNoExtension)

SchemaData == Tail(Deref(heap, sheets[Str("schema")]))

\* C23: once the mapping file is loaded, the data rows of the schema sheet
\* are the rows of the file without an extension, in file order, each
\* without its extension cell and otherwise as in the file; the data rows
\* of schema_extensions are as many as the rows of the file with an
\* extension, and each such row is there with its extension cell in front
\* of all its other cells in their order.
C23_SchemaSheetsRetainColumns ==
    MappingLoaded =>
        /\ SchemaData = [j \in DOMAIN CoreFileRows |-> SliceButLast(CoreFileRows[j])]
        /\ Len(SchemaExtensionsData) = Len(ExtensionFileRows)
        /\ \A j \in DOMAIN ExtensionFileRows :
              \E k \in DOMAIN SchemaExtensionsData :
                  SchemaExtensionsData[k] =
                      SliceLast(ExtensionFileRows[j]) \o SliceButLast(ExtensionFileRows[j])

\* C24: field_extensions maps the path of every data row of the mapping
\* file with an extension, the first data row included, to that extension,
\* and has no entry for the path of a row without an extension.
C24_EveryExtensionRowRecorded ==
    \A j \in DOMAIN Tail(mapping_file) :
        LET row == Tail(mapping_file)[j]
        IN IF HasExtension(row)
           THEN row[2] \in DOMAIN field_extensions /\ field_extensions[row[2]] = row[11]
           ELSE row[2] \notin DOMAIN field_extensions

\* The title of the `id` property of a schema fragment is the localized
\* Organization ID title: every key on the way is present.
HasOrganizationId(fragment) ==
    /\ "properties" \in DOMAIN fragment
    /\ "id" \in DOMAIN fragment.properties
    /\ "title" \in DOMAIN fragment.properties.id
    /\ fragment.properties.id.title = get_string(Str("organization_reference_id_title"))

MatchesOrganizationId(field) ==
    \/ HasOrganizationId(field.schema)
    \/ "items" \in DOMAIN field.schema /\ HasOrganizationId(field.schema.items)

\* C25: at the end of the field pass, which a schema fragment without
\* `properties`, `items` or `id` does not stop, a non-deprecated field has
\* a row in org_refs exactly when it matches and has no extension
\* assignment, and a row in the list of an extension in
\* org_refs_extensions exactly when it matches and has that extension; a
\* deprecated field has a row in neither.
C25_OrgRefIffOrganizationIdTitle ==
    FieldPassDone =>
        \A j \in DOMAIN schema.fields :
            LET matches == Live(j) /\ MatchesOrganizationId(schema.fields[j])
            IN /\ HoldsPath(org_refs, PathOf(j)) <=>
                      (matches /\ ~HasExtensionAssignment(j))
               /\ \A e \in DOMAIN org_refs_extensions :
                     HoldsPath(org_refs_extensions[e].rows, PathOf(j)) <=>
                         /\ matches
                         /\ HasExtensionAssignment(j)
                         /\ field_extensions[PathOf(j)] = org_refs_extensions[e].name
               /\ (matches /\ HasExtensionAssignment(j)) =>
                     field_extensions[PathOf(j)] \in DictKeys(org_refs_extensions)

C25_Witness ==
    /\ FieldPassDone
    /\ \E k, q, r \in DOMAIN schema.fields :
          /\ "properties" \in DOMAIN schema.fields[k].schema
          /\ "items" \notin DOMAIN schema.fields[k].schema
          /\ "id" \notin DOMAIN schema.fields[k].schema.properties
          /\ HoldsPath(org_refs, PathOf(q))
          /\ "items" \in DOMAIN schema.fields[r].schema
          /\ "properties" \notin DOMAIN schema.fields[r].schema
          /\ ~MatchesOrganizationId(schema.fields[r])

\* A row with the path lies after the explanatory section row of the
\* extensions in the sheet.
InExtensionSection(name, path) ==
    \E k \in DOMAIN sheets[name] :
        /\ PathCell(heap[sheets[name][k]]) = path
        /\ \E q \in 1..(k - 1) : q \in ExtensionSectionRows(Deref(heap, sheets[name]))

\* C26: when the sheets are finished, every non-deprecated field with an
\* extension assignment that is no stage root has its path in a row of the
\* extension section of a stage sheet, the fields under parties included.
C26_ExtensionFieldsReachASheet ==
    Finished =>
        \A j \in DOMAIN schema.fields :
            (Live(j) /\ HasExtensionAssignment(j) /\ ~IsStageRoot(j)) =>
                \E m \in DOMAIN mapping_sheetnames :
                    InExtensionSection(mapping_sheetnames[m], PathOf(j))

\* The files in the order in which _save_sheets goes through the sheets.
SaveOrder ==
    <<FileName(Str("general")), FileName(Str("planning")), FileName(Str("tender")),
      FileName(Str("awards")), FileName(Str("contracts")), FileName(Str("implementation")),
      FileName(Str("schema")), FileName(Str("schema_extensions"))>>

\* The first m files are written and closed and no later file is written.
WrittenUpTo(m) ==
    \A j \in DOMAIN SaveOrder :
        IF j <= m THEN files[SaveOrder[j]].complete ELSE ~files[SaveOrder[j]].written

\* The first m files, and no other, are uploaded, in order, each under the
\* name of its sheet and with the rows of its file; ids holds the id of
\* each upload in that order.
UploadedUpTo(m) ==
    /\ Len(uploads) = m
    /\ Len(ids) = m
    /\ \A j \in 1..m :
          /\ uploads[j].title = outputs[j].sheetname
          /\ uploads[j].content = files[SaveOrder[j]].rows
          /\ ids[j] = j

\* C27: the outputs are in the order general, planning, tender, awards,
\* contracts, implementation, schema, schema_extensions.  With save_to =
\* drive, when file n is about to be written the n - 1 files before it are
\* written, closed and uploaded and no other is; when file n is about to be
\* uploaded it is written and closed and only the files before it are
\* uploaded; at the end ids holds one id per sheet in that order.  With any
\* other save_to the run is never authenticated, never uploads, and ids is
\* empty at the end.
C27_WriteThenUploadInSheetOrder ==
    /\ pc \in {"write", "upload", "done"} =>
          [j \in DOMAIN outputs |-> outputs[j].file] = SaveOrder
    /\ save_to = Str("drive") =>
          /\ pc = "write" => WrittenUpTo(n - 1) /\ UploadedUpTo(n - 1)
          /\ pc = "upload" => WrittenUpTo(n) /\ UploadedUpTo(n - 1)
          /\ pc = "done" => WrittenUpTo(Len(SaveOrder)) /\ UploadedUpTo(Len(SaveOrder))
    /\ save_to # Str("drive") =>
          /\ pc \notin {"outputs", "upload"}
          /\ uploads = << >>
          /\ ids = << >>
          /\ pc = "write" => WrittenUpTo(n - 1)
          /\ pc = "done" => WrittenUpTo(Len(SaveOrder))

C27_Witness ==
    /\ pc = "done"
    /\ ~SecondRun
    /\ save_to = Str("drive")
    /\ Len(ids) = 8
    /\ uploads[7].title = get_string(Str("schema") \o Str("_sheetname"))

(***************************************************************************)
(* generate_mapping_sheets of src/mapping_template_sheets.py, lines        *)
(* 156-308, as a function of the inputs: the lists hold the rows           *)
(* themselves.  The outcome of the organization-reference predicate of     *)
(* lines 188-196 for each field is a parameter.                             *)
(***************************************************************************)
\* field.definition_pointer_components: empty for a field of the release.
definition_pointer_components(field) ==
    IF "definition_pointer_components" \in DOMAIN field
    THEN field.definition_pointer_components
    ELSE << >>

\* Lines 159-161.
SkippedOrDefinition(field) ==
    definition_pointer_components(field) # << >> \/ field.deprecated

\* Lines 170-178.
formatKey(field, path) ==
    IF path \in {Str("planning"), Str("tender"), Str("awards"), Str("contracts"),
                 <<"contracts", "/", "implementation">>}
    THEN Str("title")
    ELSE IF field.schema["type"] \in {Str("object"), Str("array")} THEN Str("span")
    ELSE Str("field")

\* Lines 180-185.
formatPrefix(field, field_extension) ==
    IF field_extension # << >> THEN Str("extension_")
    ELSE IF field.required THEN Str("required_")
    ELSE << >>

\* Lines 209-229.
sheetname_of(path) ==
    LET first == IF IndexOf(path, "/") = 0 THEN path
                 ELSE SubSeq(path, 1, IndexOf(path, "/") - 1)
    IN IF first \in {Str("planning"), Str("tender"), Str("awards")} THEN first
       ELSE IF first = Str("contracts")
            THEN (IF Contains(path, <<"contracts", "/", "implementation">>)
                  THEN Str("implementation")
                  ELSE Str("contracts"))
       ELSE IF first = Str("parties") THEN Str("parties")
       ELSE Str("general")

\* "if key not in d.keys(): d[key] = []" followed by d[key].append(row) on
\* an OrderedDict.
OrderedAppend(d, key, row) ==
    IF \E j \in DOMAIN d : d[j].name = key
    THEN [j \in DOMAIN d |-> IF d[j].name = key THEN [d[j] EXCEPT !.rows = Append(@, row)]
                                                ELSE d[j]]
    ELSE Append(d, [name |-> key, rows |-> <<row>>])

\* Lines 157-245: one iteration of the loop over the fields.
FieldIteration(lists, field, is_org_reference) ==
    IF SkippedOrDefinition(field) THEN lists
    ELSE LET path == Join(field.path_components, Str("/"))
             field_extension == Get(field_extensions, path, << >>)
             key == formatPrefix(field, field_extension) \o formatKey(field, path)
             sheetname == sheetname_of(path)
             with_org ==
                 IF ~is_org_reference THEN lists
                 ELSE IF field_extension # << >>
                 THEN [lists EXCEPT !.org_refs_extensions =
                                        OrderedAppend(@, field_extension, <<key, 1, path>>)]
                 ELSE [lists EXCEPT !.org_refs = Append(@, <<key, 1, path>>)]
         IN IF formatKey(field, path) = Str("title")
            THEN [with_org EXCEPT !.sheet_headers[sheetname] =
                     @ \o <<<<Str("title"), 0,
                              get_string(Str("standard_name")) \o Str(": ")
                                  \o field.schema["title"]>>,
                            <<Str("subtitle"), 0, field.schema["description"]>>>>]
            ELSE IF field_extension # << >>
            THEN [with_org EXCEPT !.extension_rows[sheetname] =
                     OrderedAppend(@, field_extension, <<key, 0, path>>)]
            ELSE IF sheetname = Str("parties")
            THEN [with_org EXCEPT !.parties_rows = Append(@, <<key, 0, path>>)]
            ELSE [with_org EXCEPT !.sheets[sheetname] = Append(@, <<key, 0, path>>)]

RECURSIVE FieldLoop(_, _, _)
FieldLoop(lists, fields, references) ==
    IF fields = << >> THEN lists
    ELSE FieldLoop(FieldIteration(lists, fields[1], references[1]),
                   Tail(fields), Tail(references))

\* The concatenation of the lists of a list.
RECURSIVE Chain(_)
Chain(lists) == IF lists = << >> THEN << >> ELSE lists[1] \o Chain(Tail(lists))

\* Lines 262-265 and 269-279: each reference followed by the rows.
Repeated(orgs, rows) == Chain([j \in DOMAIN orgs |-> <<orgs[j]>> \o rows])

\* Lines 271-279: the references of each extension go to its list in the
\* bucket of general.
RECURSIVE WithExtensionOrgs(_, _, _)
WithExtensionOrgs(bucket, entries, rows) ==
    IF entries = << >> THEN bucket
    ELSE LET name == entries[1].name
             added == Repeated(entries[1].rows, rows)
             extended ==
                 IF \E j \in DOMAIN bucket : bucket[j].name = name
                 THEN [j \in DOMAIN bucket |->
                          IF bucket[j].name = name
                          THEN [bucket[j] EXCEPT !.rows = @ \o added]
                          ELSE bucket[j]]
                 ELSE Append(bucket, [name |-> name, rows |-> added])
         IN WithExtensionOrgs(extended, Tail(entries), rows)

\* Lines 283-293.
ExtensionPart(bucket) ==
    IF Len(bucket) = 0 THEN << >>
    ELSE <<<<Str("section"), 0, get_string(Str("extension_section"))>>>> \o
         Chain([j \in DOMAIN bucket |->
                   <<<<Str("extension"), 0,
                       bucket[j].name \o Str(": ") \o extension_descriptions[bucket[j].name]>>>>
                       \o bucket[j].rows])

\* Lines 296-299.
AdditionalPart ==
    <<<<Str("section"), 0, get_string(Str("additional_fields_note"))>>>>
        \o [j \in 1..4 |-> <<Str("additional_field"), 0>>]

\* Lines 303-306.
Filled(row, width) ==
    IF Len(row) < width THEN row \o [j \in 1..(width - Len(row)) |-> << >>] ELSE row

\* Lines 157-306: the stage sheets handed to _save_sheets.
StageSheets(fields, references) ==
    LET lists == FieldLoop([sheets |-> [name \in Range(mapping_sheetnames) |-> << >>],
                            sheet_headers |-> [name \in Range(mapping_sheetnames) |-> << >>],
                            extension_rows |-> [name \in extension_rows_names |-> << >>],
                            parties_rows |-> << >>,
                            org_refs |-> << >>,
                            org_refs_extensions |-> << >>],
                           fields, references)
        general == Str("general")
        general_headers ==
            <<<<Str("title"), 0,
                get_string(Str("standard_name")) \o Str(": ")
                    \o get_string(Str("general_title"))>>,
              <<Str("subtitle"), 0, get_string(Str("general_help_text"))>>>>
        Headed(name) ==
            lists.sheet_headers[name]
                \o (IF name = general THEN general_headers ELSE << >>)
                \o <<HeadersRow>>
                \o lists.sheets[name]
        template == SubSeq(lists.parties_rows, 2, Len(lists.parties_rows))
        refs == [j \in DOMAIN lists.org_refs |->
                    [lists.org_refs[j] EXCEPT ![1] = Str("ref_span")]]
        parties_part ==
            <<<<Str("subtitle"), 0, get_string(Str("parties_description"))>>>>
                \o Repeated(refs, template)
        extension_parties_rows ==
            [j \in DOMAIN template |->
                <<Str("extension_") \o template[j][1], template[j][2], template[j][3]>>]
        Bucket(name) ==
            IF name = general
            THEN WithExtensionOrgs(lists.extension_rows[general], lists.org_refs_extensions,
                                   extension_parties_rows)
            ELSE lists.extension_rows[name]
        Whole(name) ==
            Headed(name)
                \o (IF name = general THEN parties_part ELSE << >>)
                \o ExtensionPart(Bucket(name))
                \o AdditionalPart
    IN [name \in Range(mapping_sheetnames) |->
           [j \in DOMAIN Whole(name) |-> Filled(Whole(name)[j], Len(HeadersRow))]]

\* C28: when generate_mapping_sheets of manage.py hands its sheets to
\* _save_sheets for a list of fields none of which is in the definitions
\* subtree, each of the six stage sheets holds the rows that
\* generate_mapping_sheets of mapping_template_sheets.py makes from the
\* same fields, mapping file, strings and descriptions with the same
\* classification of the fields as organization references, and the two
\* schema sheets hold the rows that its lines 103-126 make from the
\* mapping file.
C28_SameSheetsAsVariant ==
    LET InDefinitions(j) == definition_pointer_components(schema.fields[j]) # << >>
        references == [j \in DOMAIN schema.fields |-> MatchesOrganizationId(schema.fields[j])]
    IN (pc = "save" /\ \A j \in DOMAIN schema.fields : ~InDefinitions(j)) =>
          /\ \A name \in Range(mapping_sheetnames) :
                Deref(heap, sheets[name]) = StageSheets(schema.fields, references)[name]
          /\ Deref(heap, sheets[Str("schema")]) = SchemaSheet(mapping_file)
          /\ Deref(heap, sheets[Str("schema_extensions")]) = SchemaExtensionsSheet(mapping_file)

C28_Witness ==
    /\ pc = "save"
    /\ Len(schema.fields) = 4
    /\ \A j \in DOMAIN schema.fields : definition_pointer_components(schema.fields[j]) = << >>
    /\ Len(org_refs) > 0
    /\ Len(org_refs_extensions) > 0
    /\ Len(parties_rows) = 2

====
